---- MODULE Spec2Model ----
(***************************************************************************)
(* Sandcastle SDK: the three AgentGateway backends as one state machine.   *)
(*                                                                         *)
(*   MockGateway          src/sandcastle/testing/__init__.py               *)
(*   DirectGateway        src/sandcastle/gateways/direct.py                *)
(*   ControlPlaneGateway  src/sandcastle/gateways/control_plane.py         *)
(*                                                                         *)
(* One behaviour follows one gateway instance: Init picks the backend and  *)
(* its constructor arguments; every action is one method call, or, for a   *)
(* coroutine that awaits I/O, one stretch of it between two awaits.        *)
(* Money is counted in units of 1e-8 USD, so every cost is an integer.     *)
(***************************************************************************)
EXTENDS Integers, Sequences, FiniteSets, TLC

VARIABLES backend, mock, direct, remote, obs, last

vars == <<backend, mock, direct, remote, obs, last>>

(* ---------------------------------------------------------------------- *)
(* Bounds of the exploration                                               *)
(* ---------------------------------------------------------------------- *)
MaxQueued == 2
MaxInvokes == 3
MaxRecorded == 1
MaxRetries == 3
MaxCloses == 2

(* ---------------------------------------------------------------------- *)
(* Python values                                                           *)
(* ---------------------------------------------------------------------- *)
\* Optional[T]: None is the empty tuple, a present value x is <<x>>.
None == <<>>
Some(x) == <<x>>

RECURSIVE SumSeq(_)
SumSeq(s) == IF s = <<>> THEN 0 ELSE Head(s) + SumSeq(Tail(s))

\* str.startswith on strings held as tuples of segments.
StartsWith(s, p) == Len(s) >= Len(p) /\ SubSeq(s, 1, Len(p)) = p

\* str.removeprefix
RemovePrefix(s, p) == IF StartsWith(s, p) THEN SubSeq(s, Len(p) + 1, Len(s)) ELSE s

\* models.Message; absent optional fields are None.
Message(role, content) ==
    [role |-> role, content |-> content, tool_call_id |-> None, name |-> None]

UserMsg == Message("user", "q1")
ToolMsg == [role |-> "tool", content |-> "42", tool_call_id |-> Some("c1"), name |-> None]
NamedMsg == [role |-> "user", content |-> "Hi", tool_call_id |-> None, name |-> Some("agent_1")]
SystemMsg == Message("system", "extra")

\* The lists of messages a caller passes.
MessageLists == {<<UserMsg>>, <<UserMsg, ToolMsg>>, <<UserMsg, NamedMsg>>}

\* models.LLMResponse, as the caller of the test double builds them.
LLMResponse(content, cost) ==
    [message |-> Message("assistant", content), cost_usd |-> cost]

First == LLMResponse("First", 100000)
Second == LLMResponse("Second", 200000)
Free == LLMResponse("default", 0)
\* LLMResponse is a plain dataclass: it takes a negative cost_usd as it comes.
Refund == LLMResponse("refund", -50000)

\* File paths, as tuples of segments: "/workspace/out.txt" is WsFile.
WorkspacePrefix == <<"/", "workspace", "/">>
WsFile == <<"/", "workspace", "/", "out.txt">>
EtcPasswd == <<"/", "etc", "/", "passwd">>
WsNoSlash == <<"/", "workspace">>
Paths == {WsFile, EtcPasswd, WsNoSlash}
Methods == {"PUT", "GET"}

\* What the most recent call did, as its caller sees it.
Outcome(op, arg, res, val) == [op |-> op, arg |-> arg, res |-> res, val |-> val]

(* ---------------------------------------------------------------------- *)
(* MockGateway                                                             *)
(* ---------------------------------------------------------------------- *)
MockInit(responses, default_response) ==
    [queue |-> responses,
     default |-> default_response,
     workspace |-> <<"/", "tmp", "/", "mock-ws">>,
     invoke_calls |-> <<>>,
     persist_calls |-> <<>>,
     file_url_calls |-> <<>>,
     total_cost |-> 0]

\* _next_response with the deque popped from the wrong end.
NextResponseLifo(queue, default) ==
    IF queue # <<>>
    THEN [kind |-> "ok", response |-> Some(queue[Len(queue)]),
          queue |-> SubSeq(queue, 1, Len(queue) - 1)]
    ELSE IF default # None
    THEN [kind |-> "ok", response |-> default, queue |-> queue]
    ELSE [kind |-> "queue_empty", response |-> None, queue |-> queue]

\* _next_response: the response taken (or the raise) and the queue left.
NextResponse(queue, default) ==
    IF queue # <<>>
    THEN [kind |-> "ok", response |-> Some(Head(queue)), queue |-> Tail(queue)]
    ELSE IF default # None
    THEN [kind |-> "ok", response |-> default, queue |-> queue]
    ELSE [kind |-> "queue_empty", response |-> None, queue |-> queue]

M_queue_response(r) ==
    /\ backend = "mock"
    /\ Len(obs.fed) < MaxQueued
    /\ mock' = [mock EXCEPT !.queue = Append(@, r)]
    /\ obs' = [obs EXCEPT !.fed = Append(@, r)]
    /\ last' = Outcome("queue_response", r, "ok", None)
    /\ UNCHANGED <<backend, direct, remote>>

M_queue_responses(rs) ==
    /\ backend = "mock"
    /\ Len(obs.fed) + Len(rs) <= MaxQueued
    /\ mock' = [mock EXCEPT !.queue = @ \o rs]
    /\ obs' = [obs EXCEPT !.fed = @ \o rs]
    /\ last' = Outcome("queue_responses", rs, "ok", None)
    /\ UNCHANGED <<backend, direct, remote>>

\* The test double never awaits: the whole coroutine is one step.
\* invoke_llm recording the call only once a response has been taken.
M_invoke_llmRecordsAfterwards(new_messages) ==
    /\ backend = "mock"
    /\ Len(obs.outcomes) < MaxInvokes
    /\ LET calls == Append(mock.invoke_calls,
                           [new_messages |-> new_messages, tools |-> None,
                            tool_choice |-> "auto"])
           nxt == NextResponse(mock.queue, mock.default)
       IN  /\ obs' = [obs EXCEPT
                        !.outcomes = Append(@, [kind |-> nxt.kind,
                                                response |-> nxt.response,
                                                fed_before |-> Len(obs.fed)]),
                        !.returned_costs =
                            IF nxt.kind = "ok"
                            THEN Append(@, nxt.response[1].cost_usd) ELSE @]
           /\ IF nxt.kind = "ok"
              THEN /\ mock' = [mock EXCEPT
                                 !.invoke_calls = calls,
                                 !.queue = nxt.queue,
                                 !.total_cost = @ + nxt.response[1].cost_usd]
                   /\ last' = Outcome("invoke_llm", new_messages, "ok", nxt.response[1])
              ELSE /\ UNCHANGED mock
                   /\ last' = Outcome("invoke_llm", new_messages,
                                           "MockGatewayQueueEmptyError", None)
    /\ UNCHANGED <<backend, direct, remote>>

M_invoke_llm(new_messages) ==
    /\ backend = "mock"
    /\ Len(obs.outcomes) < MaxInvokes
    /\ LET calls == Append(mock.invoke_calls,
                           [new_messages |-> new_messages, tools |-> None,
                            tool_choice |-> "auto"])
           nxt == NextResponse(mock.queue, mock.default)
       IN  /\ obs' = [obs EXCEPT
                        !.outcomes = Append(@, [kind |-> nxt.kind,
                                                response |-> nxt.response,
                                                fed_before |-> Len(obs.fed)]),
                        !.returned_costs =
                            IF nxt.kind = "ok"
                            THEN Append(@, nxt.response[1].cost_usd) ELSE @]
           /\ IF nxt.kind = "ok"
              THEN /\ mock' = [mock EXCEPT
                                 !.invoke_calls = calls,
                                 !.queue = nxt.queue,
                                 !.total_cost = @ + nxt.response[1].cost_usd]
                   /\ last' = Outcome("invoke_llm", new_messages, "ok", nxt.response[1])
              ELSE /\ mock' = [mock EXCEPT !.invoke_calls = calls]
                   /\ last' = Outcome("invoke_llm", new_messages,
                                           "MockGatewayQueueEmptyError", None)
    /\ UNCHANGED <<backend, direct, remote>>

M_persist_messages(messages) ==
    /\ backend = "mock"
    /\ Len(mock.persist_calls) < MaxRecorded
    /\ mock' = [mock EXCEPT !.persist_calls = Append(@, messages)]
    /\ last' = Outcome("persist_messages", messages, "ok", None)
    /\ UNCHANGED <<backend, direct, remote, obs>>

\* The URL is the resolved local path; pathlib's "/" keeps the right operand
\* alone when it is absolute.
PathJoin(base, rel) == IF rel # <<>> /\ Head(rel) = "/" THEN rel ELSE base \o <<"/">> \o rel

M_request_file_url(file_path, method) ==
    /\ backend = "mock"
    /\ Len(mock.file_url_calls) < MaxRecorded
    /\ mock' = [mock EXCEPT
                  !.file_url_calls = Append(@, [file_path |-> file_path,
                                                method |-> method])]
    /\ last' = Outcome("request_file_url", file_path, "ok",
                       [url |-> PathJoin(mock.workspace,
                                         RemovePrefix(file_path, WorkspacePrefix)),
                        method |-> method, file_path |-> file_path, io |-> 0])
    /\ UNCHANGED <<backend, direct, remote, obs>>

M_get_session_cost ==
    /\ backend = "mock"
    /\ last' = Outcome("get_session_cost", None, "ok", mock.total_cost)
    /\ UNCHANGED <<backend, mock, direct, remote, obs>>

\* reset that clears the queue of responses along with the recorded calls.
M_resetClearsQueue ==
    /\ backend = "mock"
    /\ mock' = [mock EXCEPT !.invoke_calls = <<>>, !.persist_calls = <<>>,
                            !.file_url_calls = <<>>, !.total_cost = 0,
                            !.queue = <<>>]
    /\ obs' = [obs EXCEPT !.returned_costs = <<>>]
    /\ last' = Outcome("reset", None, "ok", None)
    /\ UNCHANGED <<backend, direct, remote>>

M_reset ==
    /\ backend = "mock"
    /\ mock' = [mock EXCEPT !.invoke_calls = <<>>, !.persist_calls = <<>>,
                            !.file_url_calls = <<>>, !.total_cost = 0]
    /\ obs' = [obs EXCEPT !.returned_costs = <<>>]
    /\ last' = Outcome("reset", None, "ok", None)
    /\ UNCHANGED <<backend, direct, remote>>

MockNext ==
    \/ \E r \in {First, Second} : M_queue_response(r)
    \/ \E rs \in {<<Second, First>>} : M_queue_responses(rs)
    \/ \E nm \in {<<UserMsg>>} : M_invoke_llm(nm)
    \/ \E ms \in {<<ToolMsg>>} : M_persist_messages(ms)
    \/ \E p \in {WsFile, EtcPasswd}, m \in {"PUT"} : M_request_file_url(p, m)
    \/ M_get_session_cost
    \/ M_reset

(* ---------------------------------------------------------------------- *)
(* DirectGateway                                                           *)
(* ---------------------------------------------------------------------- *)
\* The coroutines that may be in flight on one instance.
Tasks == {"A", "B"}

\* _OPENAI_PRICING and _ANTHROPIC_PRICING merged, in 1e-8 USD per token
\* (the tables hold USD per million tokens).
Pricing ==
    [m \in {"gpt-4o-mini", "claude-3-5-haiku-20241022"} |->
        IF m = "gpt-4o-mini" THEN [input |-> 15, output |-> 60]
                             ELSE [input |-> 80, output |-> 400]]

\* _estimate_cost; the fallback rate 0.000010 USD is 1000 units per token.
EstimateCost(model, input_tokens, output_tokens) ==
    IF model \notin DOMAIN Pricing
    THEN (input_tokens + output_tokens) * 1000
    ELSE input_tokens * Pricing[model].input + output_tokens * Pricing[model].output

\* Constructor arguments tried: client class, model, system prompt, cost cap.
DirectConfigs ==
    {[client |-> "AsyncOpenAI", model |-> "gpt-4o-mini",
      system_prompt |-> None, cost_cap_usd |-> None],
     [client |-> "AsyncAnthropic", model |-> "claude-3-5-haiku-20241022",
      system_prompt |-> Some("sys"), cost_cap_usd |-> Some(500)],
     [client |-> "AsyncOpenAI", model |-> "local-model",
      system_prompt |-> Some("sys"), cost_cap_usd |-> Some(0)]}

IdleTask == [pc |-> "idle", new_messages |-> <<>>, outgoing |-> <<>>, kwargs |-> None]

\* __init__ (the arguments tried are valid: a client, a non-empty model).
DirectInit(c) ==
    [client |-> c.client,
     model |-> c.model,
     system_prompt |-> c.system_prompt,
     cost_cap |-> c.cost_cap_usd,
     workspace |-> <<"/", "srv", "/", "ws">>,
     history |-> <<>>,
     total_cost |-> 0,
     provider |-> IF c.client = "AsyncAnthropic" THEN "anthropic" ELSE "openai",
     task |-> [t \in Tasks |-> IdleTask],
     provider_calls |-> 0,     \* calls the provider client has received
     dirs |-> {}]              \* directories mkdir has made

\* _check_cost_cap raising only at twice the cap.
CheckCostCapTwiceOver(cost_cap, total_cost) ==
    cost_cap # None /\ total_cost >= 2 * cost_cap[1]

\* _check_cost_cap with the comparison off by one.
CheckCostCapStrict(cost_cap, total_cost) ==
    cost_cap # None /\ total_cost > cost_cap[1]

\* _check_cost_cap: TRUE when it raises CostCapExceededError.
CheckCostCap(cost_cap, total_cost) ==
    cost_cap # None /\ total_cost >= cost_cap[1]

\* Message.to_openai_dict: the keys of absent optional fields are left out.
ToOpenaiDict(m) ==
    LET base == [k \in {"role", "content"} |-> IF k = "role" THEN m.role ELSE m.content]
        withId == IF m.tool_call_id # None
                  THEN [k \in DOMAIN base \cup {"tool_call_id"} |->
                          IF k = "tool_call_id" THEN m.tool_call_id[1] ELSE base[k]]
                  ELSE base
    IN  IF m.name # None
        THEN [k \in DOMAIN withId \cup {"name"} |->
                IF k = "name" THEN m.name[1] ELSE withId[k]]
        ELSE withId

\* _build_messages with the held history left out.
BuildMessagesNoHistory(system_prompt, history, new_messages) ==
    (IF system_prompt # None /\ system_prompt[1] # ""
     THEN <<[k \in {"role", "content"} |->
               IF k = "role" THEN "system" ELSE system_prompt[1]]>>
     ELSE <<>>)
    \o [i \in 1..Len(new_messages) |-> ToOpenaiDict(new_messages[i])]

\* _build_messages with the system prompt put after the history.
BuildMessagesSystemAfterHistory(system_prompt, history, new_messages) ==
    [i \in 1..Len(history) |-> ToOpenaiDict(history[i])]
    \o (IF system_prompt # None /\ system_prompt[1] # ""
        THEN <<[k \in {"role", "content"} |->
                  IF k = "role" THEN "system" ELSE system_prompt[1]]>>
        ELSE <<>>)
    \o [i \in 1..Len(new_messages) |-> ToOpenaiDict(new_messages[i])]

\* _build_messages
BuildMessages(system_prompt, history, new_messages) ==
    (IF system_prompt # None /\ system_prompt[1] # ""
     THEN <<[k \in {"role", "content"} |->
               IF k = "role" THEN "system" ELSE system_prompt[1]]>>
     ELSE <<>>)
    \o [i \in 1..Len(history) |-> ToOpenaiDict(history[i])]
    \o [i \in 1..Len(new_messages) |-> ToOpenaiDict(new_messages[i])]

\* The keyword arguments _call_openai gives the provider client (no tools).
OpenaiKwargs(model, messages) == [model |-> model, messages |-> messages]

\* The loop of _call_anthropic over the messages: the value `system` ends with.
RECURSIVE SystemOf(_, _)
SystemOf(messages, system) ==
    IF messages = <<>> THEN system
    ELSE SystemOf(Tail(messages),
                  IF Head(messages).role = "system"
                  THEN Some(Head(messages).content) ELSE system)

\* The keyword arguments _call_anthropic gives the provider client (no
\* tools): the system key is absent (None) unless `system` is truthy; its
\* string is held as a tuple of pieces.
AnthropicKwargs(model, messages) ==
    LET system == SystemOf(messages, None)
    IN  [model |-> model,
         max_tokens |-> 4096,
         messages |-> SelectSeq(messages, LAMBDA m : m.role # "system"),
         system |-> IF system # None /\ system[1] # ""
                    THEN Some(<<system[1]>>) ELSE None]

\* What the openai client answers: the text and the usage it reports.
Completions ==
    {[text |-> "hi", input_tokens |-> 1, output_tokens |-> 1],
     [text |-> "", input_tokens |-> 2, output_tokens |-> 0]}

\* The LLMResponse _call_openai builds from a completion.
ProviderResponse(model, completion) ==
    [message |-> Message("assistant", completion.text),
     cost_usd |-> EstimateCost(model, completion.input_tokens,
                               completion.output_tokens)]

\* A JSON object with string values, as a dict in insertion order: a tuple
\* of <<key, value>> pairs.
QX == <<<<"q", "x">>>>
QXN == <<<<"q", "x">>, <<"n", "2">>>>

\* The text of a JSON object written with the given separators, as a tuple
\* of pieces: every quote, key, value and separator is a piece of its own.
RECURSIVE JsonItems(_, _, _)
JsonItems(items, item_separator, key_separator) ==
    IF items = <<>> THEN <<>>
    ELSE <<"\"", items[1][1], "\"", key_separator, "\"", items[1][2], "\"">>
         \o (IF Len(items) = 1 THEN <<>> ELSE <<item_separator>>)
         \o JsonItems(Tail(items), item_separator, key_separator)

\* json.dumps with its default separators (", ", ": "); the keys stay in
\* insertion order.
JsonDumps(obj) == <<"{">> \o JsonItems(obj, ", ", ": ") \o <<"}">>

\* json.loads of the text of an object: blanks around separators are not
\* significant, so an item is the seven pieces quote key quote separator
\* quote value quote, and items are one separator apart.
JsonLoads(text) ==
    [i \in 1..((Len(text) - 1) \div 8) |-> <<text[8 * i - 5], text[8 * i - 1]>>]

\* The content blocks of an anthropic response.
TextBlock(text) == [type |-> "text", text |-> text]
ToolUseBlock(id, name, input) ==
    [type |-> "tool_use", id |-> id, name |-> name, input |-> input]
ThinkingBlock == [type |-> "thinking", thinking |-> "hm"]

\* What the anthropic client answers: content blocks, usage, stop reason.
AnthropicCompletions ==
    {[content |-> <<TextBlock("hi"), ToolUseBlock("tu_1", "search", QX)>>,
      input_tokens |-> 1, output_tokens |-> 1, stop_reason |-> Some("tool_use")],
     [content |-> <<ToolUseBlock("tu_2", "search", QXN), TextBlock("a"),
                    ThinkingBlock, TextBlock("b"), ToolUseBlock("tu_3", "open", <<>>)>>,
      input_tokens |-> 2, output_tokens |-> 0, stop_reason |-> None]}

\* models.ToolCall wrapping models.Function.
ToolCall(id, name, arguments) ==
    [id |-> id, type |-> "function",
     function |-> [name |-> name, arguments |-> arguments]]

\* The loop of _call_anthropic over the blocks with only the first block of
\* each kind kept.
RECURSIVE NormalizeBlocksFirstOnly(_, _, _)
NormalizeBlocksFirstOnly(blocks, content, tool_calls) ==
    IF blocks = <<>> THEN [content |-> content, tool_calls |-> tool_calls]
    ELSE LET block == Head(blocks)
         IN  IF block.type = "text"
             THEN NormalizeBlocksFirstOnly(Tail(blocks),
                                  IF content = "" THEN block.text ELSE content,
                                  tool_calls)
             ELSE IF block.type = "tool_use"
             THEN NormalizeBlocksFirstOnly(Tail(blocks), content,
                      IF tool_calls = None
                      THEN Some(<<ToolCall(block.id, block.name, JsonDumps(block.input))>>)
                      ELSE tool_calls)
             ELSE NormalizeBlocksFirstOnly(Tail(blocks), content, tool_calls)

\* The loop of _call_anthropic over response.content: content and
\* tool_calls after the blocks, starting from the given ones.
RECURSIVE NormalizeBlocks(_, _, _)
NormalizeBlocks(blocks, content, tool_calls) ==
    IF blocks = <<>> THEN [content |-> content, tool_calls |-> tool_calls]
    ELSE LET block == Head(blocks)
         IN  IF block.type = "text"
             THEN NormalizeBlocks(Tail(blocks), content \o block.text, tool_calls)
             ELSE IF block.type = "tool_use"
             THEN NormalizeBlocks(Tail(blocks), content,
                      Some((IF tool_calls = None THEN <<>> ELSE tool_calls[1])
                           \o <<ToolCall(block.id, block.name, JsonDumps(block.input))>>))
             ELSE NormalizeBlocks(Tail(blocks), content, tool_calls)

\* finish_map.get(response.stop_reason or "end_turn", "stop")
FinishReason(stop_reason) ==
    LET reason == IF stop_reason = None THEN "end_turn" ELSE stop_reason[1]
    IN  IF reason = "tool_use" THEN "tool_calls"
        ELSE IF reason = "max_tokens" THEN "length"
        ELSE "stop"

\* The LLMResponse _call_anthropic builds from the provider's response.
CallAnthropic(model, response) ==
    LET blocks == NormalizeBlocks(response.content, "", None)
    IN  [message |-> Message("assistant", blocks.content),
         cost_usd |-> EstimateCost(model, response.input_tokens, response.output_tokens),
         model |-> model,
         finish_reason |-> FinishReason(response.stop_reason),
         tool_calls |-> blocks.tool_calls,
         usage |-> [input_tokens |-> response.input_tokens,
                    output_tokens |-> response.output_tokens,
                    total_tokens |-> response.input_tokens + response.output_tokens]]

\* What the provider client raises: the class name and the text of the
\* exception, each a tuple of pieces so that "x in s" can be computed.
ProviderExceptions ==
    {[type |-> <<"RateLimitError">>, text |-> <<"slow down">>],
     [type |-> <<"ContentFilter", "FinishReasonError">>, text |-> <<"refused">>],
     [type |-> <<"BadRequestError">>, text |-> <<"blocked by ", "Content_Filter">>],
     [type |-> <<"APIConnectionError">>, text |-> <<"no route">>]}

\* needle in haystack
Contains(haystack, needle) == \E i \in 1..Len(haystack) : haystack[i] = needle

\* str.lower, piece by piece
Lower(text) ==
    [i \in 1..Len(text) |-> IF text[i] = "Content_Filter" THEN "content_filter" ELSE text[i]]

\* The provider's exception let through as it came.
ClassifyRaw(provider, exc) == exc.type[1]

\* _classify_openai_error, and the except clause of _call_anthropic.
ClassifyProviderError(provider, exc) ==
    IF provider = "anthropic" THEN "ProviderError"
    ELSE IF Contains(exc.type, "RateLimitError") THEN "RateLimitError"
    ELSE IF Contains(exc.type, "ContentFilter")
            \/ Contains(Lower(exc.text), "content_filter") THEN "ContentPolicyError"
    ELSE "ProviderError"

\* What the raised error carries besides its message: RateLimitError is
\* built by _classify_openai_error with provider="openai" and the default
\* retry_after_seconds.
ErrorFields(kind) ==
    IF kind = "RateLimitError"
    THEN Some([provider |-> "openai", retry_after_seconds |-> 60])
    ELSE None

\* The error of _check_cost_cap with a cap of its own in place of the
\* configured one.
CapErrorZeroCap(cost_cap, total_cost) ==
    [cap_usd |-> 0, consumed_usd |-> total_cost]

\* What the CostCapExceededError of _check_cost_cap carries.
CapError(cost_cap, total_cost) ==
    [cap_usd |-> cost_cap[1], consumed_usd |-> total_cost]

\* The observer's list of the direct client's calls since the last reset, in
\* the order the calls were made: a persist_messages with its batch, an
\* invoke_llm with the messages it put into the history, None while it is
\* in flight. An invoke_llm that fails leaves the list. The list is kept
\* only by an observer that was asked to (o.ordered).
Called(o, who, msgs) ==
    IF o.ordered THEN [o EXCEPT !.calls = Append(@, [by |-> who, msgs |-> msgs])] ELSE o

Returned(o, who, msgs) ==
    IF o.ordered
    THEN [o EXCEPT !.calls = [i \in 1..Len(@) |->
                                IF @[i].by = who /\ @[i].msgs = None
                                THEN [by |-> who, msgs |-> Some(msgs)] ELSE @[i]]]
    ELSE o

Failed(o, who) ==
    IF o.ordered
    THEN [o EXCEPT !.calls = SelectSeq(@, LAMBDA c : ~(c.by = who /\ c.msgs = None))]
    ELSE o

Forgotten(o) ==
    IF o.ordered THEN [o EXCEPT !.calls = SelectSeq(@, LAMBDA c : c.msgs = None)] ELSE o

\* The observer's note of the cost of the latest response invoke_llm
\* returned; a reset does not erase it. The note is kept only by an observer
\* that was asked to (o.metered).
Metered(o, cost) ==
    IF o.metered THEN [o EXCEPT !.recent_cost = Some(cost)] ELSE o

\* invoke_llm up to its await: the cap check, the outgoing list, the dispatch.
D_invoke_llm(t, new_messages) ==
    /\ backend = "direct"
    /\ direct.task[t].pc = "idle"
    /\ direct.provider_calls < MaxInvokes
    /\ IF CheckCostCap(direct.cost_cap, direct.total_cost)
       THEN /\ last' = Outcome("invoke_llm", new_messages, "CostCapExceededError",
                               CapError(direct.cost_cap, direct.total_cost))
            /\ UNCHANGED <<direct, obs>>
       ELSE /\ LET messages == BuildMessages(direct.system_prompt, direct.history,
                                              new_messages)
               IN  direct' = [direct EXCEPT
                                !.task[t] =
                                    [pc |-> "awaiting",
                                     new_messages |-> new_messages,
                                     outgoing |-> messages,
                                     kwargs |-> Some(IF direct.provider = "anthropic"
                                                     THEN AnthropicKwargs(direct.model, messages)
                                                     ELSE OpenaiKwargs(direct.model, messages))],
                                !.provider_calls = @ + 1]
            /\ obs' = Called(obs, t, None)
            /\ last' = Outcome("invoke_llm", new_messages, "awaiting", t)
    /\ UNCHANGED <<backend, mock, remote>>

\* The commit of invoke_llm with the cost overwritten instead of added.
CommitOverwrite(d, new_messages, response) ==
    [d EXCEPT !.total_cost = response.cost_usd,
              !.history = (@ \o new_messages) \o <<response.message>>]

\* The commit with the response message put before new_messages.
CommitResponseFirst(d, new_messages, response) ==
    [d EXCEPT !.total_cost = @ + response.cost_usd,
              !.history = (@ \o <<response.message>>) \o new_messages]

\* The commit cut short after the cost: the history is not touched.
CommitCostOnly(d, new_messages, response) ==
    [d EXCEPT !.total_cost = @ + response.cost_usd]

\* The commit with the turn put at the front of the history.
CommitAtFront(d, new_messages, response) ==
    [d EXCEPT !.total_cost = @ + response.cost_usd,
              !.history = (new_messages \o <<response.message>>) \o @]

\* The commit with the response message put at the front of the history and
\* new_messages at its end.
CommitResponseApart(d, new_messages, response) ==
    [d EXCEPT !.total_cost = @ + response.cost_usd,
              !.history = (<<response.message>> \o @) \o new_messages]

\* invoke_llm after its await: cost, then history.
Commit(d, new_messages, response) ==
    [d EXCEPT !.total_cost = @ + response.cost_usd,
              !.history = (@ \o new_messages) \o <<response.message>>]

\* The provider call returns: the response is normalised and committed.
D_provider_returns(t, provider, completion) ==
    /\ backend = "direct"
    /\ direct.provider = provider
    /\ direct.task[t].pc = "awaiting"
    /\ LET response == IF provider = "anthropic"
                       THEN CallAnthropic(direct.model, completion)
                       ELSE ProviderResponse(direct.model, completion)
       IN  /\ direct' = [Commit(direct, direct.task[t].new_messages, response)
                           EXCEPT !.task[t] = IdleTask]
           /\ obs' = [Returned(Metered(obs, response.cost_usd), t,
                               Append(direct.task[t].new_messages, response.message))
                        EXCEPT !.returned_costs = Append(@, response.cost_usd)]
           /\ last' = Outcome("invoke_llm", direct.task[t].new_messages, "ok", response)
    /\ UNCHANGED <<backend, mock, remote>>

\* The provider call raises: the error is classified and re-raised.
D_provider_raises(t, exc) ==
    /\ backend = "direct"
    /\ direct.task[t].pc = "awaiting"
    /\ direct' = [direct EXCEPT !.task[t] = IdleTask]
    /\ LET kind == ClassifyProviderError(direct.provider, exc)
       IN  last' = Outcome("invoke_llm", direct.task[t].new_messages, kind,
                           ErrorFields(kind))
    /\ obs' = Failed(obs, t)
    /\ UNCHANGED <<backend, mock, remote>>

\* The task running invoke_llm is cancelled while it awaits the provider:
\* CancelledError is raised at the await. It is no Exception, so the except
\* clauses of _call_openai and _call_anthropic let it through.
D_cancel(t) ==
    /\ backend = "direct"
    /\ direct.task[t].pc = "awaiting"
    /\ direct' = [direct EXCEPT !.task[t] = IdleTask]
    /\ last' = Outcome("invoke_llm", direct.task[t].new_messages, "CancelledError", None)
    /\ obs' = Failed(obs, t)
    /\ UNCHANGED <<backend, mock, remote>>

\* (explored while the history is shorter than MaxRecorded)
D_persist_messages(messages) ==
    /\ backend = "direct"
    /\ Len(direct.history) < MaxRecorded
    /\ direct' = [direct EXCEPT !.history = @ \o messages]
    /\ obs' = [Called(obs, "persist_messages", Some(messages))
                 EXCEPT !.persisted = @ \cup {messages[i] : i \in 1..Len(messages)}]
    /\ last' = Outcome("persist_messages", messages, "ok", None)
    /\ UNCHANGED <<backend, mock, remote>>

\* _resolve_workspace_path testing for "/workspace" without the slash after it.
ResolveWorkspacePathNoSlash(workspace, file_path) ==
    IF ~StartsWith(file_path, <<"/", "workspace">>)
    THEN [raises |-> TRUE, path |-> <<>>]
    ELSE [raises |-> FALSE,
          path |-> PathJoin(workspace, RemovePrefix(file_path, WorkspacePrefix))]

\* _resolve_workspace_path: raises PathNotAllowedError, or the local path.
ResolveWorkspacePath(workspace, file_path) ==
    IF ~StartsWith(file_path, WorkspacePrefix)
    THEN [raises |-> TRUE, path |-> <<>>]
    ELSE [raises |-> FALSE,
          path |-> PathJoin(workspace, RemovePrefix(file_path, WorkspacePrefix))]

\* Path.parent
Parent(path) == IF Len(path) <= 2 THEN <<"/">> ELSE SubSeq(path, 1, Len(path) - 2)

D_request_file_url(file_path, method) ==
    /\ backend = "direct"
    /\ LET resolved == ResolveWorkspacePath(direct.workspace, file_path)
           made == IF ~resolved.raises /\ method = "PUT"
                   THEN {Parent(resolved.path)} ELSE {}
       IN  /\ direct' = [direct EXCEPT !.dirs = @ \cup made]
           /\ last' = IF resolved.raises
                      THEN Outcome("request_file_url", file_path, "PathNotAllowedError",
                                   [file_path |-> file_path, method |-> method,
                                    io |-> Cardinality(made)])
                      ELSE Outcome("request_file_url", file_path, "ok",
                                   [url |-> resolved.path, method |-> method,
                                    file_path |-> file_path, io |-> Cardinality(made)])
    /\ UNCHANGED <<backend, mock, remote, obs>>

D_get_session_cost ==
    /\ backend = "direct"
    /\ last' = Outcome("get_session_cost", None, "ok", direct.total_cost)
    /\ UNCHANGED <<backend, mock, direct, remote, obs>>

\* reset that also drops the calls in flight.
D_resetCancelsInFlight ==
    /\ backend = "direct"
    /\ direct' = [direct EXCEPT !.history = <<>>, !.total_cost = 0,
                                !.task = [t \in Tasks |-> IdleTask]]
    /\ obs' = [Forgotten(obs) EXCEPT !.returned_costs = <<>>]
    /\ last' = Outcome("reset", None, "ok", None)
    /\ UNCHANGED <<backend, mock, remote>>

\* reset that forgets to clear the history.
D_resetKeepsHistory ==
    /\ backend = "direct"
    /\ direct' = [direct EXCEPT !.total_cost = 0]
    /\ obs' = [Forgotten(obs) EXCEPT !.returned_costs = <<>>]
    /\ last' = Outcome("reset", None, "ok", None)
    /\ UNCHANGED <<backend, mock, remote>>

D_reset ==
    /\ backend = "direct"
    /\ direct' = [direct EXCEPT !.history = <<>>, !.total_cost = 0]
    /\ obs' = [Forgotten(obs) EXCEPT !.returned_costs = <<>>]
    /\ last' = Outcome("reset", None, "ok", None)
    /\ UNCHANGED <<backend, mock, remote>>

DirectNext ==
    \/ \E t \in Tasks, nm \in {<<UserMsg, NamedMsg>>} : D_invoke_llm(t, nm)
    \/ \E t \in Tasks, c \in Completions : D_provider_returns(t, "openai", c)
    \/ \E t \in Tasks, c \in AnthropicCompletions : D_provider_returns(t, "anthropic", c)
    \/ \E t \in Tasks, e \in ProviderExceptions : D_provider_raises(t, e)
    \/ \E t \in Tasks : D_cancel(t)
    \/ \E ms \in {<<ToolMsg>>} : D_persist_messages(ms)
    \/ \E p \in Paths, m \in Methods : D_request_file_url(p, m)
    \/ D_get_session_cost
    \/ D_reset

(* ---------------------------------------------------------------------- *)
(* ControlPlaneGateway                                                     *)
(* ---------------------------------------------------------------------- *)
\* dict.get(key, default) on a decoded JSON object (a function on its keys).
Get(body, key, default) == IF key \in DOMAIN body THEN body[key] ELSE default

EmptyObj == [k \in {} |-> 0]

\* 2 ** n
RECURSIVE Pow2(_)
Pow2(n) == IF n <= 0 THEN 1 ELSE 2 * Pow2(n - 1)

\* Error bodies the control plane sends with a 4xx status.
AuthBody == [error_code |-> "authentication_failed", session_id |-> "s1", reason |-> "expired"]
CapBody == [error_code |-> "cost_cap_exceeded", cap_usd |-> 500, consumed_usd |-> 700,
            session_id |-> "s1"]
NotFoundBody == [error_code |-> "session_not_found", session_id |-> "s2"]
OtherBody == [error_code |-> "validation_failed", message |-> "bad"]
ErrorBodies == {AuthBody, CapBody, NotFoundBody, OtherBody, EmptyObj}

\* Bodies sent with a status below 400, by operation (section 6 of the wire
\* protocol); the fields the client reads with a default may be missing.
InvokeBody == [message |-> [role |-> "assistant", content |-> "hello"], cost_usd |-> 100000]
\* A reply whose message is the wire form of a Message that has a name.
NamedReply == [role |-> "assistant", content |-> "hello", tool_call_id |-> None,
               name |-> Some("agent_1")]
NamedReplyBody == [message |-> ToOpenaiDict(NamedReply), cost_usd |-> 100000]
CostBody == [cost_usd |-> 300000]
UrlBody == [url |-> "https://cp/f", expires_at |-> "t", method |-> "PUT",
            file_path |-> WsFile]
AllOkBodies == {InvokeBody, NamedReplyBody, CostBody, UrlBody, EmptyObj}
OkBodies(op) ==
    IF op = "invoke_llm" THEN {InvokeBody, NamedReplyBody, EmptyObj}
    ELSE IF op = "get_session_cost" THEN {CostBody, EmptyObj}
    ELSE IF op = "request_file_url" THEN {UrlBody}
    ELSE {EmptyObj}

StatusesOk == {200, 201}
Statuses4xx == {400, 401, 402, 404}
Statuses5xx == {500, 503}

\* An httpx.Response: json_ok is FALSE when response.json() raises.
Response(status, json_ok, body) ==
    [status_code |-> status, json_ok |-> json_ok, body |-> body,
     text |-> IF json_ok THEN "json" ELSE "not json"]

\* The exception last_exc holds, as far as _request reads it.
NoExc == [kind |-> "none", status_code |-> None]
TransportExc == [kind |-> "network", status_code |-> None]
ServerExc(status) == [kind |-> "ControlPlaneError", status_code |-> Some(status)]

\* getattr(last_exc, "status_code", None)
StatusCodeOf(exc) == exc.status_code

NoResult == [kind |-> "none"]

IdleRequest ==
    [pc |-> "idle", op |-> "none", arg |-> None, attempt |-> 0, last_exc |-> NoExc,
     requests |-> 0,      \* calls of self._client.request made for this call
     trace |-> <<>>,      \* what each of them ended in
     sleeps |-> <<>>,     \* the asyncio.sleep durations asked for, in order
     ret |-> None,        \* the body _request returned
     result |-> NoResult]

\* __init__ (a key and a URL are given).
RemoteInit(session_id, max_retries, slots) ==
    [session_id |-> session_id,
     max_retries |-> max_retries,
     aclose_calls |-> 0,    \* calls of self._client.aclose() made so far
     req |-> [q \in slots |-> IdleRequest]]

\* _raise_4xx going by the status alone and passing on nothing of the body.
Raise4xxBare(response) ==
    IF response.status_code = 401
    THEN [kind |-> "AuthenticationError", message |-> response.text,
          status_code |-> 401, error_code |-> "authentication_failed",
          session_id |-> "", reason |-> ""]
    ELSE [kind |-> "ControlPlaneError", message |-> response.text,
          status_code |-> response.status_code, error_code |-> "unknown"]

\* _raise_4xx: the exception raised for a response with a 4xx status.
Raise4xx(response) ==
    LET body == IF response.json_ok THEN response.body ELSE EmptyObj
        error_code == Get(body, "error_code", "unknown")
        message == Get(body, "message", response.text)
        status == response.status_code
    IN  IF status = 401 \/ error_code = "authentication_failed"
        THEN [kind |-> "AuthenticationError", message |-> message,
              status_code |-> 401, error_code |-> "authentication_failed",
              session_id |-> Get(body, "session_id", ""),
              reason |-> Get(body, "reason", "")]
        ELSE IF status = 402 \/ error_code = "cost_cap_exceeded"
        THEN [kind |-> "CostCapExceededError", message |-> message,
              status_code |-> 402, error_code |-> "cost_cap_exceeded",
              cap_usd |-> Get(body, "cap_usd", 0),
              consumed_usd |-> Get(body, "consumed_usd", 0),
              session_id |-> Get(body, "session_id", "")]
        ELSE IF status = 404 \/ error_code = "session_not_found"
        THEN [kind |-> "SessionNotFoundError",
              status_code |-> 404, error_code |-> "session_not_found",
              session_id |-> Get(body, "session_id", "unknown")]
        ELSE [kind |-> "ControlPlaneError", message |-> message,
              status_code |-> status, error_code |-> error_code]

\* NetworkError raised with its attempts argument left at the default.
ExhaustedDefaultAttempts(max_retries, last_exc) ==
    [kind |-> "NetworkError", attempts |-> 0,
     last_status_code |-> last_exc.status_code]

\* The NetworkError raised when the loop of _request runs out.
Exhausted(max_retries, last_exc) ==
    [kind |-> "NetworkError", attempts |-> max_retries,
     last_status_code |-> StatusCodeOf(last_exc)]

\* _parse_llm_response, as far as the message and the cost go.
ParseLlmResponse(data) ==
    LET msg_data == Get(data, "message", EmptyObj)
    IN  [message |-> Message(Get(msg_data, "role", "assistant"),
                             Get(msg_data, "content", "")),
         cost_usd |-> Get(data, "cost_usd", 0)]

\* What each operation makes of the body _request returns.
Decode(op, data) ==
    IF op = "invoke_llm" THEN ParseLlmResponse(data)
    ELSE IF op = "get_session_cost" THEN Get(data, "cost_usd", 0)
    ELSE IF op = "request_file_url"
    THEN [url |-> data["url"], expires_at |-> data["expires_at"],
          method |-> data["method"], file_path |-> data["file_path"]]
    ELSE None

\* The test that sends a response to _raise_4xx, taken for every status >= 400.
Is4xxOrAbove(status_code) == 400 <= status_code

\* The same test with its lower end strict.
Is4xxStrict(status_code) == 400 < status_code /\ status_code < 500

\* 400 <= response.status_code < 500
Is4xx(status_code) == 400 <= status_code /\ status_code < 500

\* A backoff that does not grow.
BackoffFlat(attempt) == 1

\* A backoff whose exponent is the attempt, not the attempt less one.
BackoffFromTwo(attempt) == Pow2(attempt)

\* The delay slept after failed attempt `attempt`: 2 ** (attempt - 1).
Backoff(attempt) == Pow2(attempt - 1)

\* range(1, max_retries + 1) has a next element after `attempt`.
AttemptsRemain(attempt, max_retries) == attempt < max_retries

\* _request with its loop entered once whatever max_retries is.
BeginRequestAtLeastOnce(q, op, arg) ==
    /\ remote' = [remote EXCEPT
                    !.req[q] = [IdleRequest EXCEPT
                                  !.pc = "http", !.op = op, !.arg = arg,
                                  !.attempt = 1, !.requests = 1]]
    /\ last' = Outcome(op, arg, "awaiting", q)

\* The call of an operation up to its first await: _request enters its loop
\* and issues attempt 1, or the loop is empty and NetworkError is raised.
BeginRequest(q, op, arg) ==
    IF 1 <= remote.max_retries
    THEN /\ remote' = [remote EXCEPT
                         !.req[q] = [IdleRequest EXCEPT
                                       !.pc = "http", !.op = op, !.arg = arg,
                                       !.attempt = 1, !.requests = 1]]
         /\ last' = Outcome(op, arg, "awaiting", q)
    ELSE LET err == Exhausted(remote.max_retries, NoExc)
         IN  /\ remote' = [remote EXCEPT
                             !.req[q] = [IdleRequest EXCEPT
                                           !.op = op, !.arg = arg, !.result = err]]
             /\ last' = Outcome(op, arg, err.kind, err)

R_invoke_llm(q, new_messages) ==
    /\ backend = "remote"
    /\ q \in DOMAIN remote.req
    /\ remote.req[q].pc = "idle"
    /\ remote.aclose_calls = 0
    /\ Len(obs.returned_costs) < MaxInvokes
    /\ BeginRequest(q, "invoke_llm", new_messages)
    /\ UNCHANGED <<backend, mock, direct, obs>>

R_persist_messages(q, messages) ==
    /\ backend = "remote"
    /\ q \in DOMAIN remote.req
    /\ remote.req[q].pc = "idle"
    /\ remote.aclose_calls = 0
    /\ BeginRequest(q, "persist_messages", messages)
    /\ UNCHANGED <<backend, mock, direct, obs>>

R_request_file_url(q, file_path, method) ==
    /\ backend = "remote"
    /\ q \in DOMAIN remote.req
    /\ remote.req[q].pc = "idle"
    /\ remote.aclose_calls = 0
    /\ IF ~StartsWith(file_path, WorkspacePrefix)
       THEN /\ remote' = [remote EXCEPT
                            !.req[q] = [IdleRequest EXCEPT
                                          !.op = "request_file_url",
                                          !.arg = file_path,
                                          !.result = [kind |-> "PathNotAllowedError",
                                                      attempted_path |-> file_path]]]
            /\ last' = Outcome("request_file_url", file_path, "PathNotAllowedError",
                               [file_path |-> file_path, method |-> method, io |-> 0])
       ELSE BeginRequest(q, "request_file_url", file_path)
    /\ UNCHANGED <<backend, mock, direct, obs>>

R_get_session_cost(q) ==
    /\ backend = "remote"
    /\ q \in DOMAIN remote.req
    /\ remote.req[q].pc = "idle"
    /\ remote.aclose_calls = 0
    /\ BeginRequest(q, "get_session_cost", None)
    /\ UNCHANGED <<backend, mock, direct, obs>>

\* After a failed attempt: back off while attempts remain, else the loop ends
\* and NetworkError is raised.
AfterFailure(q, r, exc, seen) ==
    IF AttemptsRemain(r.attempt, remote.max_retries)
    THEN /\ remote' = [remote EXCEPT
                         !.req[q] = [r EXCEPT !.pc = "sleep", !.last_exc = exc,
                                              !.trace = Append(@, seen),
                                              !.sleeps = Append(@, Backoff(r.attempt))]]
         /\ UNCHANGED last
    ELSE LET err == Exhausted(remote.max_retries, exc)
         IN  /\ remote' = [remote EXCEPT
                             !.req[q] = [r EXCEPT !.pc = "idle", !.last_exc = exc,
                                                  !.trace = Append(@, seen),
                                                  !.result = err]]
             /\ last' = Outcome(r.op, r.arg, err.kind, err)

\* self._client.request raises ConnectError, TimeoutException or
\* RemoteProtocolError.
R_transport_raises(q) ==
    /\ backend = "remote"
    /\ q \in DOMAIN remote.req
    /\ remote.req[q].pc = "http"
    /\ AfterFailure(q, remote.req[q], TransportExc,
                    [kind |-> "network", status_code |-> 0, body |-> None])
    /\ UNCHANGED <<backend, mock, direct, obs>>

\* self._client.request returns a response. A body that is JSON and comes
\* with a status below 400 is the JSON object the operation asked for; a
\* body that is not JSON makes response.json() raise JSONDecodeError, which
\* nothing in _request or its callers catches.
R_transport_responds(q, response) ==
    /\ backend = "remote"
    /\ q \in DOMAIN remote.req
    /\ remote.req[q].pc = "http"
    /\ (response.status_code < 400 /\ response.json_ok)
         => response.body \in OkBodies(remote.req[q].op)
    /\ LET r == remote.req[q]
           seen == [kind |-> "response", status_code |-> response.status_code,
                    body |-> IF response.json_ok THEN Some(response.body) ELSE None]
       IN  IF response.status_code < 400 /\ ~response.json_ok
           THEN /\ remote' = [remote EXCEPT
                                !.req[q] = [r EXCEPT !.pc = "idle",
                                                     !.trace = Append(@, seen),
                                                     !.result = [kind |-> "JSONDecodeError"]]]
                /\ last' = Outcome(r.op, r.arg, "JSONDecodeError", None)
                /\ UNCHANGED obs
           ELSE IF response.status_code < 400
           THEN LET value == Decode(r.op, response.body)
                IN  /\ remote' = [remote EXCEPT
                                    !.req[q] = [r EXCEPT
                                                  !.pc = "idle",
                                                  !.trace = Append(@, seen),
                                                  !.ret = Some(response.body),
                                                  !.result = [kind |-> "ok",
                                                              value |-> value]]]
                    /\ last' = Outcome(r.op, r.arg, "ok", value)
                    /\ obs' = [obs EXCEPT
                                 !.returned_costs =
                                     IF r.op = "invoke_llm"
                                     THEN Append(@, value.cost_usd) ELSE @]
           ELSE IF Is4xx(response.status_code)
           THEN LET err == Raise4xx(response)
                IN  /\ remote' = [remote EXCEPT
                                    !.req[q] = [r EXCEPT !.pc = "idle",
                                                         !.trace = Append(@, seen),
                                                         !.result = err]]
                    /\ last' = Outcome(r.op, r.arg, err.kind, err)
                    /\ UNCHANGED obs
           ELSE /\ AfterFailure(q, r, ServerExc(response.status_code), seen)
                /\ UNCHANGED obs
    /\ UNCHANGED <<backend, mock, direct>>

\* asyncio.sleep returns and the attempt counter of every call in flight,
\* not only the caller's, goes up.
R_sleep_returnsSharedCounter(q) ==
    /\ backend = "remote"
    /\ q \in DOMAIN remote.req
    /\ remote.req[q].pc = "sleep"
    /\ remote' = [remote EXCEPT
                    !.req = [u \in DOMAIN @ |->
                               IF u = q
                               THEN [@[u] EXCEPT !.pc = "http", !.attempt = @ + 1,
                                                 !.requests = @ + 1]
                               ELSE IF @[u].pc # "idle"
                               THEN [@[u] EXCEPT !.attempt = @ + 1]
                               ELSE @[u]]]
    /\ UNCHANGED <<backend, mock, direct, obs, last>>

\* asyncio.sleep returns: the loop goes to its next attempt.
R_sleep_returns(q) ==
    /\ backend = "remote"
    /\ q \in DOMAIN remote.req
    /\ remote.req[q].pc = "sleep"
    /\ remote' = [remote EXCEPT !.req[q].pc = "http",
                                !.req[q].attempt = @ + 1,
                                !.req[q].requests = @ + 1]
    /\ UNCHANGED <<backend, mock, direct, obs, last>>

\* close(): the HTTP client's aclose() is awaited, whatever was done before.
\* (Calls are explored on a client that close() has not been called on: what
\* a closed HTTP client does with a request is the library's business.)
R_close ==
    /\ backend = "remote"
    /\ remote.aclose_calls < MaxCloses
    /\ remote' = [remote EXCEPT !.aclose_calls = @ + 1]
    /\ last' = Outcome("close", None, "ok", None)
    /\ UNCHANGED <<backend, mock, direct, obs>>

\* __aexit__, the end of an `async with` block on the client: close().
R_aexit ==
    /\ backend = "remote"
    /\ remote.aclose_calls < MaxCloses
    /\ remote' = [remote EXCEPT !.aclose_calls = @ + 1]
    /\ last' = Outcome("__aexit__", None, "ok", None)
    /\ UNCHANGED <<backend, mock, direct, obs>>

RemoteNext ==
    \E q \in {"A", "B"} :
        \/ \E nm \in {<<UserMsg>>} : R_invoke_llm(q, nm)
        \/ \E ms \in {<<ToolMsg>>} : R_persist_messages(q, ms)
        \/ \E p \in Paths, m \in {"PUT"} : R_request_file_url(q, p, m)
        \/ R_get_session_cost(q)
        \/ R_transport_raises(q)
        \/ \E s \in StatusesOk, b \in AllOkBodies :
              R_transport_responds(q, Response(s, TRUE, b))
        \/ \E s \in Statuses4xx, b \in ErrorBodies :
              R_transport_responds(q, Response(s, TRUE, b))
        \/ \E s \in Statuses4xx \cup Statuses5xx :
              R_transport_responds(q, Response(s, FALSE, EmptyObj))
        \/ R_sleep_returns(q)

(* ---------------------------------------------------------------------- *)
(* The observer's record: what was fed to and returned by the instance     *)
(* ---------------------------------------------------------------------- *)
ObsInit(fed) ==
    [fed |-> fed,              \* every response queued so far, in order
     outcomes |-> <<>>,        \* the test double's invoke_llm results, in order
     returned_costs |-> <<>>,  \* cost_usd of each response returned since reset
     persisted |-> {},         \* the messages given to the direct client's
                               \* persist_messages so far, resets included
     ordered |-> FALSE,        \* whether the observer keeps `calls`
     calls |-> <<>>,           \* the direct client's calls in the order they
                               \* were made, see Called / Returned / Failed
     metered |-> FALSE,        \* whether the observer keeps `recent_cost`
     recent_cost |-> None]     \* cost_usd of the latest response returned by
                               \* the direct client, see Metered

InitMock ==
    /\ backend = "mock"
    /\ \E rs \in {<<>>, <<First>>}, d \in {None, Some(Free)} :
         /\ mock = MockInit(rs, d)
         /\ obs = ObsInit(rs)
    /\ direct = None
    /\ remote = None

InitDirect ==
    /\ backend = "direct"
    /\ \E c \in DirectConfigs : direct = DirectInit(c)
    /\ obs = ObsInit(<<>>)
    /\ mock = None
    /\ remote = None

InitRemote ==
    /\ backend = "remote"
    /\ \E n \in -1..MaxRetries :
         remote = RemoteInit(Some("s1"), n, {"A"})
    /\ obs = ObsInit(<<>>)
    /\ mock = None
    /\ direct = None

Init ==
    /\ InitMock \/ InitDirect \/ InitRemote
    /\ last = Outcome("init", None, "ok", None)

Next == MockNext \/ DirectNext \/ RemoteNext

Spec == Init /\ [][Next]_vars

\* One DirectGateway instance alone.
InitDirectOnly ==
    /\ InitDirect
    /\ last = Outcome("init", None, "ok", None)

SpecDirect == InitDirectOnly /\ [][DirectNext]_vars

\* One DirectGateway instance, built with or without a system prompt, whose
\* invoke_llm, persist_messages and reset calls the observer lists in the
\* order they are made.
InitCallOrder ==
    /\ backend = "direct"
    /\ \E c \in {c \in DirectConfigs : c.cost_cap_usd # Some(0)} :
         direct = DirectInit(c)
    /\ obs = [ObsInit(<<>>) EXCEPT !.ordered = TRUE]
    /\ mock = None
    /\ remote = None
    /\ last = Outcome("init", None, "ok", None)

CallOrderNext ==
    \/ \E t \in Tasks, nm \in {<<UserMsg, NamedMsg>>} : D_invoke_llm(t, nm)
    \/ \E t \in Tasks, c \in Completions : D_provider_returns(t, "openai", c)
    \/ \E t \in Tasks, c \in AnthropicCompletions : D_provider_returns(t, "anthropic", c)
    \/ \E t \in Tasks, e \in ProviderExceptions : D_provider_raises(t, e)
    \/ \E t \in Tasks : D_cancel(t)
    \/ \E ms \in {<<ToolMsg>>} : D_persist_messages(ms)
    \/ D_reset

SpecCallOrder == InitCallOrder /\ [][CallOrderNext]_vars

\* One DirectGateway instance built with a cost cap, whose operations are
\* called one at a time: each call is awaited before the next is made, so
\* one coroutine is in flight at most and nothing else runs while it is.
NoCallInFlight == \A t \in Tasks : direct.task[t].pc = "idle"

\* Constructor arguments with a cost cap: those of DirectConfigs, and an
\* openai client whose cap is above the cost of one call.
CappedConfigs ==
    {c \in DirectConfigs : c.cost_cap_usd # None}
    \cup {[client |-> "AsyncOpenAI", model |-> "gpt-4o-mini",
            system_prompt |-> None, cost_cap_usd |-> Some(100)]}

InitOneAtATime ==
    /\ backend = "direct"
    /\ \E c \in CappedConfigs : direct = DirectInit(c)
    /\ obs = [ObsInit(<<>>) EXCEPT !.metered = TRUE]
    /\ mock = None
    /\ remote = None
    /\ last = Outcome("init", None, "ok", None)

OneAtATimeNext ==
    \/ \E nm \in {<<UserMsg, NamedMsg>>} : NoCallInFlight /\ D_invoke_llm("A", nm)
    \/ \E c \in Completions : D_provider_returns("A", "openai", c)
    \/ \E c \in AnthropicCompletions : D_provider_returns("A", "anthropic", c)
    \/ \E e \in ProviderExceptions : D_provider_raises("A", e)
    \/ \E ms \in {<<ToolMsg>>} : NoCallInFlight /\ D_persist_messages(ms)
    \/ \E p \in Paths, m \in Methods : NoCallInFlight /\ D_request_file_url(p, m)
    \/ NoCallInFlight /\ D_get_session_cost
    \/ NoCallInFlight /\ D_reset

SpecOneAtATime == InitOneAtATime /\ [][OneAtATimeNext]_vars

\* One DirectGateway instance on an anthropic client whose callers pass
\* system-role messages too.
InitSystemRole ==
    /\ backend = "direct"
    /\ \E c \in {c \in DirectConfigs : c.client = "AsyncAnthropic"} :
         direct = DirectInit(c)
    /\ obs = ObsInit(<<>>)
    /\ mock = None
    /\ remote = None
    /\ last = Outcome("init", None, "ok", None)

SystemRoleNext ==
    \/ \E t \in Tasks, nm \in {<<UserMsg>>, <<SystemMsg, UserMsg>>} : D_invoke_llm(t, nm)
    \/ \E t \in Tasks, c \in AnthropicCompletions : D_provider_returns(t, "anthropic", c)
    \/ \E t \in Tasks, e \in ProviderExceptions : D_provider_raises(t, e)
    \/ \E ms \in {<<ToolMsg>>} : D_persist_messages(ms)
    \/ D_reset

SpecSystemRole == InitSystemRole /\ [][SystemRoleNext]_vars

\* One ControlPlaneGateway instance alone, from construction to the release
\* of its HTTP client.
InitRemoteOnly ==
    /\ InitRemote
    /\ last = Outcome("init", None, "ok", None)

LifetimeNext == RemoteNext \/ R_close \/ R_aexit

SpecLifetime == InitRemoteOnly /\ [][LifetimeNext]_vars

\* One ControlPlaneGateway instance with up to two calls in flight at once
\* (two tasks awaiting on the same client).
InitConcurrent ==
    /\ backend = "remote"
    /\ \E n \in 1..MaxRetries :
         remote = RemoteInit(Some("s1"), n, {"A", "B"})
    /\ obs = ObsInit(<<>>)
    /\ mock = None
    /\ direct = None
    /\ last = Outcome("init", None, "ok", None)

ConcurrentNext ==
    \E q \in {"A", "B"} :
        \/ R_get_session_cost(q)
        \/ R_transport_raises(q)
        \/ \E s \in {200}, b \in {CostBody} :
              R_transport_responds(q, Response(s, TRUE, b))
        \/ \E s \in {404}, b \in {NotFoundBody} :
              R_transport_responds(q, Response(s, TRUE, b))
        \/ \E s \in {503} :
              R_transport_responds(q, Response(s, FALSE, EmptyObj))
        \/ R_sleep_returns(q)

SpecConcurrent == InitConcurrent /\ [][ConcurrentNext]_vars

\* One ControlPlaneGateway instance whose transport may hand back, with any
\* status, a body that is not JSON (an HTML page of a proxy, a cut-off body).
InitAnyTransport ==
    /\ backend = "remote"
    /\ \E n \in 1..MaxRetries :
         remote = RemoteInit(Some("s1"), n, {"A"})
    /\ obs = ObsInit(<<>>)
    /\ mock = None
    /\ direct = None
    /\ last = Outcome("init", None, "ok", None)

AnyTransportNext ==
    \E q \in {"A"} :
        \/ \E nm \in {<<UserMsg>>} : R_invoke_llm(q, nm)
        \/ R_get_session_cost(q)
        \/ R_transport_raises(q)
        \/ \E s \in StatusesOk, b \in AllOkBodies :
              R_transport_responds(q, Response(s, TRUE, b))
        \/ \E s \in StatusesOk :
              R_transport_responds(q, Response(s, FALSE, EmptyObj))
        \/ \E s \in Statuses4xx, b \in ErrorBodies :
              R_transport_responds(q, Response(s, TRUE, b))
        \/ \E s \in Statuses4xx \cup Statuses5xx :
              R_transport_responds(q, Response(s, FALSE, EmptyObj))
        \/ R_sleep_returns(q)

SpecAnyTransport == InitAnyTransport /\ [][AnyTransportNext]_vars

\* One MockGateway instance alone, built on a queue that may hold a response
\* of negative cost.
InitMockAnyCost ==
    /\ backend = "mock"
    /\ \E rs \in {<<>>, <<Refund>>}, d \in {None, Some(Free)} :
         /\ mock = MockInit(rs, d)
         /\ obs = ObsInit(rs)
    /\ direct = None
    /\ remote = None
    /\ last = Outcome("init", None, "ok", None)

SpecMockAnyCost == InitMockAnyCost /\ [][MockNext]_vars

(* ---------------------------------------------------------------------- *)
(* Properties                                                              *)
(* ---------------------------------------------------------------------- *)
\* The requests of the remote client, finished or in flight.
Requests == IF backend = "remote" THEN {remote.req[q] : q \in DOMAIN remote.req} ELSE {}

Finished(r) == r.pc = "idle" /\ r.result.kind # "none"

IsNetworkFailure(e) == e.kind = "network"
IsServerFailure(e) == e.kind = "response" /\ e.status_code >= 500
IsClientError(e) == e.kind = "response" /\ e.status_code >= 400 /\ e.status_code < 500
IsSuccess(e) == e.kind = "response" /\ e.status_code < 400

\* Queue entries consumed by the first i - 1 invoke_llm calls of the test
\* double, counted from what had been queued before each call.
RECURSIVE Consumed(_)
Consumed(i) ==
    IF i <= 1 THEN 0
    ELSE LET c == Consumed(i - 1)
         IN  IF c < obs.outcomes[i - 1].fed_before THEN c + 1 ELSE c

AllQueuedFirst == \A i \in 1..Len(obs.outcomes) : obs.outcomes[i].fed_before = Len(obs.fed)

\* C1: the test double hands out the queued responses in FIFO order. When all
\* N responses were queued before the first invoke_llm, call i <= N returns the
\* i-th queued response and every call after the N-th returns the default
\* response, or fails with queue-empty when no default is set. In general
\* each call returns the oldest response not yet handed out.
C1_FifoThenDefault ==
    backend = "mock" =>
        /\ AllQueuedFirst =>
             \A i \in 1..Len(obs.outcomes) :
                 LET o == obs.outcomes[i]
                 IN  IF i <= Len(obs.fed)
                     THEN o.kind = "ok" /\ o.response = Some(obs.fed[i])
                     ELSE IF mock.default # None
                     THEN o.kind = "ok" /\ o.response = mock.default
                     ELSE o.kind = "queue_empty" /\ o.response = None
        /\ \A i \in 1..Len(obs.outcomes) :
             LET o == obs.outcomes[i]
                 c == Consumed(i)
             IN  IF c < o.fed_before
                 THEN o.kind = "ok" /\ o.response = Some(obs.fed[c + 1])
                 ELSE IF mock.default # None
                 THEN o.kind = "ok" /\ o.response = mock.default
                 ELSE o.kind = "queue_empty"

\* Two responses queued, three calls made, no default: the third call failed.
C1_Witness ==
    /\ backend = "mock"
    /\ mock.default = None
    /\ Len(obs.fed) = 2
    /\ Len(obs.outcomes) = 3
    /\ AllQueuedFirst
    /\ obs.fed[1] # obs.fed[2]
    /\ obs.outcomes[3].kind = "queue_empty"

\* C2: an invoke_llm made on a direct client whose cost cap is set and whose
\* accumulated cost has reached it fails with cost-cap-exceeded, and the
\* provider has received as many calls after it as before it.
C2_CapCheckedBeforeProviderCall ==
    [][(/\ backend = "direct"
        /\ direct.cost_cap # None
        /\ direct.total_cost >= direct.cost_cap[1]
        /\ \E t \in Tasks, nm \in MessageLists : D_invoke_llm(t, nm))
       => (/\ last'.op = "invoke_llm"
           /\ last'.res = "CostCapExceededError"
           /\ direct'.provider_calls = direct.provider_calls)]_vars

\* The cap of 500 was reached by two paid calls and the next call was refused.
C2_Witness ==
    /\ backend = "direct"
    /\ direct.cost_cap = Some(500)
    /\ direct.total_cost >= 500
    /\ direct.provider_calls = 2
    /\ last.op = "invoke_llm"
    /\ last.res = "CostCapExceededError"

\* C3: a request answered network-error, network-error, then a response with
\* status < 400, under max_retries >= 3, succeeds on the third attempt: it
\* returns that response's body, made exactly three attempts and slept 1 and
\* then 2 time units (3 in all) before succeeding.
C3_SucceedsOnThirdAttempt ==
    \A r \in Requests :
        (/\ remote.max_retries >= 3
         /\ Len(r.trace) = 3
         /\ IsNetworkFailure(r.trace[1])
         /\ IsNetworkFailure(r.trace[2])
         /\ IsSuccess(r.trace[3]))
        => /\ Finished(r)
           /\ r.result.kind = "ok"
           /\ r.ret = r.trace[3].body
           /\ r.requests = 3
           /\ r.sleeps = <<1, 2>>
           /\ SumSeq(r.sleeps) >= 3

C3_Witness ==
    \E r \in Requests :
        /\ Len(r.trace) = 3
        /\ IsNetworkFailure(r.trace[1])
        /\ IsNetworkFailure(r.trace[2])
        /\ IsSuccess(r.trace[3])
        /\ r.op = "invoke_llm"
        /\ r.result.kind = "ok"

\* C4: with max_retries >= 1, a request whose max_retries attempts all ended
\* in a network error fails with network-exhaustion carrying
\* attempts = max_retries, after exactly max_retries attempts; and a request
\* that has seen only network errors fails no sooner.
C4_ExhaustionCarriesAttempts ==
    \A r \in Requests :
        (/\ remote.max_retries >= 1
         /\ r.trace # <<>>
         /\ \A i \in 1..Len(r.trace) : IsNetworkFailure(r.trace[i]))
        => IF Len(r.trace) = remote.max_retries
           THEN /\ Finished(r)
                /\ r.result.kind = "NetworkError"
                /\ r.result.attempts = remote.max_retries
                /\ r.requests = remote.max_retries
           ELSE /\ ~Finished(r)
                /\ Len(r.trace) < remote.max_retries

C4_Witness ==
    \E r \in Requests :
        /\ remote.max_retries = 3
        /\ Len(r.trace) = 3
        /\ \A i \in 1..3 : IsNetworkFailure(r.trace[i])
        /\ r.result.kind = "NetworkError"

\* C5: a first response of status 401 whose body carries error_code
\* "authentication_failed", session_id "s1" and reason "expired" makes the
\* operation fail with an authentication failure of session id "s1" and
\* reason "expired", after exactly one HTTP attempt and no backoff sleep.
C5_AuthFailureNotRetried ==
    \A r \in Requests :
        (/\ r.trace # <<>>
         /\ r.trace[1].kind = "response"
         /\ r.trace[1].status_code = 401
         /\ r.trace[1].body = Some(AuthBody))
        => /\ Finished(r)
           /\ r.result.kind = "AuthenticationError"
           /\ r.result.session_id = "s1"
           /\ r.result.reason = "expired"
           /\ Len(r.trace) = 1
           /\ r.requests = 1
           /\ r.sleeps = <<>>

C5_Witness ==
    \E r \in Requests :
        /\ r.trace = <<[kind |-> "response", status_code |-> 401, body |-> Some(AuthBody)]>>
        /\ r.result.kind = "AuthenticationError"

\* C6 as amended: on the test double and on the direct client,
\* get_session_cost returns the sum of the cost_usd of the responses that the
\* successful invoke_llm calls returned since construction or the last
\* reset; the remote client keeps no sum and returns the cost_usd field of
\* the control plane's reply, 0 when the field is missing.
C6_CostIsSumOfReturnedCosts ==
    /\ (backend \in {"mock", "direct"} /\ last.op = "get_session_cost")
       => last.val = SumSeq(obs.returned_costs)
    /\ \A r \in Requests :
         (r.op = "get_session_cost" /\ r.result.kind = "ok")
         => r.result.value = (IF "cost_usd" \in DOMAIN r.ret[1]
                              THEN r.ret[1].cost_usd ELSE 0)

\* The direct client asked for its cost after two paid invoke_llm calls.
C6_Witness ==
    /\ backend = "direct"
    /\ last.op = "get_session_cost"
    /\ Len(obs.returned_costs) = 2
    /\ obs.returned_costs[1] > 0
    /\ obs.returned_costs[2] > 0

\* C6 as claimed: on every backend, the remote client too, get_session_cost
\* returns the sum of the cost_usd of the responses returned by the
\* successful invoke_llm calls since construction or the last reset.
C6_CostIsSumOnEveryBackend ==
    (last.op = "get_session_cost" /\ last.res = "ok")
    => last.val = SumSeq(obs.returned_costs)

\* C7: a request_file_url for a path that does not start with "/workspace/"
\* ends, on every backend, in path-not-allowed, with no I/O done and no
\* PresignedURL returned.
C7_PathOutsideWorkspaceRejected ==
    (last.op = "request_file_url" /\ ~StartsWith(last.arg, WorkspacePrefix))
    => /\ last.res = "PathNotAllowedError"
       /\ last.val.io = 0

DomainErrors ==
    {"AuthenticationError", "CostCapExceededError", "SessionNotFoundError",
     "ControlPlaneError"}

\* C8: a response with a status in [400,500) ends the request on the attempt
\* it arrives at, whatever failed before it: a domain error is raised (an
\* authentication failure for a 401, the response's own status on the generic
\* error), no further HTTP attempt is made and no backoff sleep follows it.
C8_ClientErrorNeverRetried ==
    \A r \in Requests :
        \A i \in 1..Len(r.trace) :
            IsClientError(r.trace[i])
            => /\ i = Len(r.trace)
               /\ Finished(r)
               /\ r.result.kind \in DomainErrors
               /\ r.trace[i].status_code = 401 => r.result.kind = "AuthenticationError"
               /\ r.result.kind = "ControlPlaneError"
                    => r.result.status_code = r.trace[i].status_code
               /\ r.requests = i
               /\ Len(r.sleeps) = i - 1

\* A 4xx response that arrived on the third attempt, after a network error
\* and a 5xx response.
C8_Witness ==
    \E r \in Requests :
        /\ Len(r.trace) = 3
        /\ IsNetworkFailure(r.trace[1])
        /\ IsServerFailure(r.trace[2])
        /\ r.trace[3].kind = "response"
        /\ r.trace[3].status_code = 404
        /\ r.result.kind = "SessionNotFoundError"

\* C9: an attempt that ends in a response of status >= 500 is treated as one
\* that ends in a network error: after failed attempt i < max_retries the
\* client sleeps 2^(i-1) and goes on to another attempt, and when attempt
\* max_retries fails too the request ends in network-exhaustion, neither in
\* a generic control-plane error nor in a returned body.
C9_ServerErrorRetriedLikeNetworkFailure ==
    \A r \in Requests :
        \A i \in 1..Len(r.trace) :
            (IsServerFailure(r.trace[i]) \/ IsNetworkFailure(r.trace[i]))
            => IF i < remote.max_retries
               THEN /\ Len(r.sleeps) >= i
                    /\ r.sleeps[i] = Pow2(i - 1)
                    /\ r.requests >= i
                    /\ i < Len(r.trace) \/ r.pc \in {"sleep", "http"}
               ELSE /\ i = remote.max_retries
                    /\ i = Len(r.trace)
                    /\ Finished(r)
                    /\ r.result.kind = "NetworkError"
                    /\ r.ret = None
                    /\ r.requests = remote.max_retries

\* Three attempts, 5xx responses and a network error among them, exhausted.
C9_Witness ==
    \E r \in Requests :
        /\ remote.max_retries = 3
        /\ Len(r.trace) = 3
        /\ IsServerFailure(r.trace[1])
        /\ IsNetworkFailure(r.trace[2])
        /\ IsServerFailure(r.trace[3])
        /\ r.sleeps = <<1, 2>>
        /\ r.result.kind = "NetworkError"

\* The status code of the most recent HTTP response among the attempts.
LastStatusReceived(trace) ==
    LET got == {i \in 1..Len(trace) : trace[i].kind = "response"}
    IN  IF got = {} THEN None
        ELSE Some(trace[CHOOSE i \in got : \A j \in got : j <= i].status_code)

\* C10: the network-exhaustion error carries the status code of the most
\* recent HTTP response received during the request's attempts (none when
\* no response was received), for every mix of network errors and 5xx.
C10_LastKnownStatusReported ==
    \A r \in Requests :
        r.result.kind = "NetworkError"
        => r.result.last_status_code = LastStatusReceived(r.trace)

\* The error kind a status code stands for, None when it stands for none.
KindOfStatus(status) ==
    IF status = 401 THEN Some("AuthenticationError")
    ELSE IF status = 402 THEN Some("CostCapExceededError")
    ELSE IF status = 404 THEN Some("SessionNotFoundError")
    ELSE None

\* The error kind an error_code stands for, None when it is not a known one.
KindOfErrorCode(error_code) ==
    IF error_code = "authentication_failed" THEN Some("AuthenticationError")
    ELSE IF error_code = "cost_cap_exceeded" THEN Some("CostCapExceededError")
    ELSE IF error_code = "session_not_found" THEN Some("SessionNotFoundError")
    ELSE None

\* C11: a 4xx response is classified by its status code first and by the
\* error_code of its body only as a fallback: 401 is always an authentication
\* failure, 402 always cost-cap-exceeded, 404 always session-not-found,
\* whatever error_code the body carries; error_code selects the kind only
\* for another status; and another status without a known error_code gives
\* the generic control-plane error with status code, error code and message.
C11_StatusFirstThenErrorCode ==
    \A r \in Requests :
        (Finished(r) /\ r.trace # <<>> /\ IsClientError(r.trace[Len(r.trace)]))
        => LET e == r.trace[Len(r.trace)]
               body == IF e.body = None THEN EmptyObj ELSE e.body[1]
               error_code == Get(body, "error_code", "unknown")
           IN  IF KindOfStatus(e.status_code) # None
               THEN r.result.kind = KindOfStatus(e.status_code)[1]
               ELSE IF KindOfErrorCode(error_code) # None
               THEN r.result.kind = KindOfErrorCode(error_code)[1]
               ELSE /\ r.result.kind = "ControlPlaneError"
                    /\ r.result.status_code = e.status_code
                    /\ r.result.error_code = error_code
                    /\ r.result.message = Get(body, "message",
                                              IF e.body = None THEN "not json" ELSE "json")

(* ---------------------------------------------------------------------- *)
(* Properties of the direct client                                         *)
(* ---------------------------------------------------------------------- *)
\* Task t's invoke_llm passed the cap check and went to the provider.
Dispatched(t) == direct.task[t].pc = "idle" /\ direct'.task[t].pc = "awaiting"

\* Task t's invoke_llm came back from its await, returning or raising.
Resumed(t) == direct.task[t].pc = "awaiting" /\ direct'.task[t].pc = "idle"

IsPrefix(s, t) == Len(s) <= Len(t) /\ SubSeq(t, 1, Len(s)) = s

\* C12: a successful invoke_llm of the direct client adds exactly the cost_usd
\* of the response it returns to the accumulated cost and appends to the
\* history all of new_messages, in order, followed by the response message;
\* the entries the history held keep their order and position.
C12_SuccessCommitsCostAndHistory ==
    [][backend = "direct" =>
        \A t \in Tasks :
            (Resumed(t) /\ last'.res = "ok")
            => /\ last'.op = "invoke_llm"
               /\ last'.arg = direct.task[t].new_messages
               /\ direct'.total_cost = direct.total_cost + last'.val.cost_usd
               /\ Len(direct'.history)
                    = Len(direct.history) + Len(direct.task[t].new_messages) + 1
               /\ IsPrefix(direct.history, direct'.history)
               /\ \A i \in 1..Len(direct.task[t].new_messages) :
                     direct'.history[Len(direct.history) + i]
                       = direct.task[t].new_messages[i]
               /\ direct'.history[Len(direct'.history)] = last'.val.message]_vars

\* A success that found messages in the history and cost already accumulated.
C12_Witness ==
    /\ backend = "direct"
    /\ last.op = "invoke_llm"
    /\ last.res = "ok"
    /\ Len(last.arg) = 2
    /\ Len(direct.history) >= 2 * (Len(last.arg) + 1)
    /\ direct.total_cost > last.val.cost_usd

DirectDomainErrors == {"RateLimitError", "ContentPolicyError", "ProviderError"}

\* C13: when the provider call of an invoke_llm fails, that invoke_llm made
\* exactly one provider call (the dispatch, and none on the failure), a domain
\* error is raised to the caller, and neither the dispatch nor the failure
\* changes the accumulated cost or the history.
C13_FailedProviderCallChangesNothing ==
    [][backend = "direct" =>
        \A t \in Tasks :
            /\ Dispatched(t)
               => /\ direct'.provider_calls = direct.provider_calls + 1
                  /\ direct'.total_cost = direct.total_cost
                  /\ direct'.history = direct.history
            /\ (Resumed(t) /\ last'.res \notin {"ok", "CancelledError"})
               => /\ last'.op = "invoke_llm"
                  /\ last'.res \in DirectDomainErrors
                  /\ direct'.provider_calls = direct.provider_calls
                  /\ direct'.total_cost = direct.total_cost
                  /\ direct'.history = direct.history]_vars

\* A provider failure on an instance that holds history and cost; the error
\* is not the one every provider failure of the other family becomes.
C13_Witness ==
    /\ backend = "direct"
    /\ last.op = "invoke_llm"
    /\ last.res = "ContentPolicyError"
    /\ direct.history # <<>>
    /\ direct.total_cost > 0
    /\ direct.provider_calls >= 2

\* The cost a backend has accumulated, for the two backends that keep one.
AccumulatedCost == IF backend = "mock" THEN mock.total_cost ELSE direct.total_cost

\* C14: on the direct client and on the test double, no operation but reset
\* makes the accumulated cost smaller: invoke_llm, persist_messages,
\* request_file_url and get_session_cost leave it equal or larger, whatever
\* response the provider or the queue supplies.
C14_CostNeverDecreases ==
    [][(backend \in {"mock", "direct"} /\ last'.op # "reset")
       => AccumulatedCost' >= AccumulatedCost]_vars

\* C15: on a direct client with a cost cap, once the accumulated cost has
\* reached the cap every invoke_llm fails with cost-cap-exceeded carrying the
\* configured cap and the accumulated cost of that moment, without a provider
\* call and without changing the instance; and the cost stays at or above
\* the cap through every step that is not a reset, so this goes on however
\* many calls are made and whatever other operations come in between.
C15_CapReachedRefusesUntilReset ==
    [][(/\ backend = "direct"
        /\ direct.cost_cap # None
        /\ direct.total_cost >= direct.cost_cap[1])
       => /\ \A t \in Tasks, nm \in MessageLists :
                D_invoke_llm(t, nm)
                => /\ last'.op = "invoke_llm"
                   /\ last'.res = "CostCapExceededError"
                   /\ last'.val = [cap_usd |-> direct.cost_cap[1],
                                   consumed_usd |-> direct.total_cost]
                   /\ direct' = direct
          /\ last'.op # "reset"
                => /\ direct'.cost_cap = direct.cost_cap
                   /\ direct'.total_cost >= direct.cost_cap[1]]_vars

\* A refusal at cap 500, after an earlier refusal, a request_file_url that
\* made a directory, and a call in flight that committed past the cap.
C15_Witness ==
    /\ backend = "direct"
    /\ last.op = "invoke_llm"
    /\ last.res = "CostCapExceededError"
    /\ last.val.cap_usd = 500
    /\ last.val.consumed_usd > 900
    /\ direct.dirs # {}
    /\ direct.provider_calls = 2

\* C16: the direct client's accumulated cost is 0 and its history empty right
\* after construction and right after every reset; every other step leaves
\* the entries of the history in place (it only appends) and never takes a
\* non-zero accumulated cost back to 0.
C16_ZeroOnlyAtStartAndReset ==
    /\ backend = "direct" => (direct.total_cost = 0 /\ direct.history = <<>>)
    /\ [][backend = "direct" =>
            IF last'.op = "reset"
            THEN direct'.total_cost = 0 /\ direct'.history = <<>>
            ELSE /\ IsPrefix(direct.history, direct'.history)
                 /\ direct.total_cost # 0 => direct'.total_cost # 0]_vars

\* A reset that found history and cost, with a call still in flight.
C16_Witness ==
    /\ backend = "direct"
    /\ last.op = "reset"
    /\ direct.history = <<>>
    /\ direct.total_cost = 0
    /\ direct.provider_calls = 3
    /\ \E t \in Tasks : direct.task[t].pc = "awaiting"

Turns(history) == SelectSeq(history, LAMBDA m : m.role # "tool")

\* C18: cancelling an in-flight invoke_llm of the direct client commits
\* nothing in part. In every state, after a cancellation too, the history
\* holds exactly one full turn (all of new_messages, then the response
\* message) for each response whose cost is in the accumulated cost: never
\* a cost without its turn, never new_messages without the response message.
C18_NoPartialCommit ==
    backend = "direct" =>
        LET turns == Turns(direct.history)
            n == Len(obs.returned_costs)
        IN  /\ direct.total_cost = SumSeq(obs.returned_costs)
            /\ Len(turns) = 3 * n
            /\ \A k \in 1..n :
                 /\ turns[3 * k - 2] = UserMsg
                 /\ turns[3 * k - 1] = NamedMsg
                 /\ turns[3 * k].role = "assistant"

\* A call cancelled at its await on an instance that had committed another
\* call, while a third call is still in flight.
C18_Witness ==
    /\ backend = "direct"
    /\ last.op = "invoke_llm"
    /\ last.res = "CancelledError"
    /\ Len(obs.returned_costs) = 1
    /\ direct.total_cost > 0
    /\ \E t \in Tasks : direct.task[t].pc = "awaiting"

Messages == {UserMsg, ToolMsg, NamedMsg, NamedReply}

\* C20: to_openai_dict gives role and content unchanged, has the key
\* tool_call_id exactly when tool_call_id is set and the key name exactly
\* when name is set; and a Message read back from its wire form (the
\* message of a control-plane reply, read by _parse_llm_response) has the
\* role, the content and the same optional fields present as the wire form.
C20_WireFormRoundTrip ==
    /\ \A m \in Messages :
         LET d == ToOpenaiDict(m)
         IN  /\ d.role = m.role
             /\ d.content = m.content
             /\ ("tool_call_id" \in DOMAIN d) <=> (m.tool_call_id # None)
             /\ ("name" \in DOMAIN d) <=> (m.name # None)
             /\ DOMAIN d \subseteq {"role", "content", "tool_call_id", "name"}
    /\ \A r \in Requests :
         (r.op = "invoke_llm" /\ r.result.kind = "ok" /\ "message" \in DOMAIN r.ret[1])
         => LET d == r.ret[1].message
                m == r.result.value.message
            IN  /\ m.role = d.role
                /\ m.content = d.content
                /\ (m.tool_call_id # None) <=> ("tool_call_id" \in DOMAIN d)
                /\ (m.name # None) <=> ("name" \in DOMAIN d)

IsTextBlock(block) == block.type = "text"
IsToolUseBlock(block) == block.type = "tool_use"

\* The texts of text blocks joined in order.
RECURSIVE JoinTexts(_)
JoinTexts(blocks) == IF blocks = <<>> THEN "" ELSE Head(blocks).text \o JoinTexts(Tail(blocks))

\* The response of the specification's example: one text block "hi" and one
\* tool-use block named "search" with input {"q":"x"}.
HiSearch ==
    [content |-> <<TextBlock("hi"), ToolUseBlock("tu_1", "search", QX)>>,
     input_tokens |-> 1, output_tokens |-> 1, stop_reason |-> Some("tool_use")]

\* C21: anthropic-style, the response with one text block "hi" and one
\* tool-use block "search" with input {"q":"x"} is normalised to content
\* "hi" and exactly one ToolCall named "search" whose arguments are the text
\* json.dumps writes for that input, {"q": "x"} with a blank after the
\* colon, which decodes to {"q":"x"}; in general the content is the texts of
\* the text blocks joined in block order, and the tool-use blocks map one to
\* one, in order, to ToolCalls (none at all gives tool_calls None).
C21_AnthropicNormalization ==
    [][\A t \in Tasks, c \in AnthropicCompletions :
         D_provider_returns(t, "anthropic", c)
         => LET r == last'.val
                uses == SelectSeq(c.content, IsToolUseBlock)
            IN  /\ r.message.content = JoinTexts(SelectSeq(c.content, IsTextBlock))
                /\ r.message.role = "assistant"
                /\ (uses = <<>>) <=> (r.tool_calls = None)
                /\ uses # <<>>
                   => /\ Len(r.tool_calls[1]) = Len(uses)
                      /\ \A i \in 1..Len(uses) :
                           /\ r.tool_calls[1][i].id = uses[i].id
                           /\ r.tool_calls[1][i].function.name = uses[i].name
                           /\ JsonLoads(r.tool_calls[1][i].function.arguments)
                                = uses[i].input
                /\ c = HiSearch
                   => /\ r.message.content = "hi"
                      /\ Len(r.tool_calls[1]) = 1
                      /\ r.tool_calls[1][1].function.name = "search"
                      /\ r.tool_calls[1][1].function.arguments
                           = <<"{", "\"", "q", "\"", ": ", "\"", "x", "\"", "}">>]_vars

\* An anthropic call has returned the example response, and another one a
\* response with two text blocks and two tool-use blocks.
C21_Witness ==
    /\ direct.provider = "anthropic"
    /\ last.op = "invoke_llm" /\ last.res = "ok"
    /\ last.val.message.content = "ab"
    /\ Len(last.val.tool_calls[1]) = 2
    /\ \E i \in 1..Len(direct.history) : direct.history[i].content = "hi"

\* C21 as claimed: the arguments of the example's ToolCall are the text
\* {"q":"x"}, character for character.
C21_ArgumentsAreCompactJson ==
    [][\A t \in Tasks :
         D_provider_returns(t, "anthropic", HiSearch)
         => /\ last'.val.message.content = "hi"
            /\ Len(last'.val.tool_calls[1]) = 1
            /\ last'.val.tool_calls[1][1].function.name = "search"
            /\ last'.val.tool_calls[1][1].function.arguments
                 = <<"{", "\"", "q", "\"", ":", "\"", "x", "\"", "}">>]_vars

\* The attempts of request r, by number, that ended in a network error or a
\* 5xx response.
FailedAttempts(r) ==
    {k \in 1..Len(r.trace) : IsNetworkFailure(r.trace[k]) \/ IsServerFailure(r.trace[k])}

\* C22: within one request the sleep taken after failed attempt k (network
\* error or 5xx) is exactly 2^(k-1) when k < max_retries; no sleep is taken
\* after the final attempt (nor after an attempt that did not fail); so a
\* request that ran out of attempts has slept 2^(max_retries-1) - 1 in total
\* and has made exactly max_retries attempts.
C22_BackoffSchedule ==
    \A r \in Requests :
        /\ \A k \in FailedAttempts(r) :
             k < remote.max_retries
             => Len(r.sleeps) >= k /\ r.sleeps[k] = Pow2(k - 1)
        /\ Len(r.sleeps) = Cardinality({k \in FailedAttempts(r) : k < remote.max_retries})
        /\ (r.result.kind = "NetworkError" /\ r.requests >= 1)
           => /\ r.requests = remote.max_retries
              /\ Len(r.trace) = remote.max_retries
              /\ Len(r.sleeps) = remote.max_retries - 1
              /\ SumSeq(r.sleeps) = Pow2(remote.max_retries - 1) - 1

\* A request that ran out of its three attempts, the last one a 5xx
\* response, having slept 1 and then 2.
C22_Witness ==
    /\ backend = "remote"
    /\ remote.max_retries = 3
    /\ \E r \in Requests :
         /\ r.result.kind = "NetworkError"
         /\ r.requests = 3
         /\ SumSeq(r.sleeps) = 3
         /\ IsServerFailure(r.trace[3])
         /\ IsNetworkFailure(r.trace[1])

\* The messages the listed calls have put into the history, call after call.
RECURSIVE Flatten(_)
Flatten(calls) ==
    IF calls = <<>> THEN <<>>
    ELSE (IF Head(calls).msgs = None THEN <<>> ELSE Head(calls).msgs[1])
         \o Flatten(Tail(calls))

AllowedDirs ==
    {Parent(ResolveWorkspacePath(direct.workspace, p).path) :
        p \in {p \in Paths : StartsWith(p, WorkspacePrefix)}}

\* C24: on the remote and the direct client a request_file_url for a path
\* not prefixed "/workspace/" raises path-not-allowed before any side
\* effect: the remote client has issued no HTTP request for it, has slept
\* no backoff and is not waiting for anything; the direct client has made
\* no directory, the method being "PUT" or not.
C24_PathRejectedBeforeSideEffects ==
    /\ backend = "remote"
       => \A r \in Requests :
            (r.op = "request_file_url" /\ ~StartsWith(r.arg, WorkspacePrefix))
            => /\ r.pc = "idle"
               /\ r.result.kind = "PathNotAllowedError"
               /\ r.requests = 0
               /\ r.trace = <<>>
               /\ r.sleeps = <<>>
    /\ backend = "direct"
       => /\ (last.op = "request_file_url" /\ ~StartsWith(last.arg, WorkspacePrefix))
             => /\ last.res = "PathNotAllowedError"
                /\ last.val.io = 0
          /\ direct.dirs \subseteq AllowedDirs

\* The direct client has just rejected a "PUT" for "/workspace" (no slash
\* after it) and no directory exists.
C24_Witness ==
    /\ backend = "direct"
    /\ last.op = "request_file_url"
    /\ last.arg = WsNoSlash
    /\ last.res = "PathNotAllowedError"
    /\ last.val.method = "PUT"
    /\ direct.dirs = {}

\* C25: anthropic-style, no system-role entry remains in the messages given
\* to the provider, and the content of every system-role message of the
\* outgoing list (the configured prompt, and any system-role message of the
\* history or of new_messages) is carried in the separate system field.
C25_SystemMessagesCarriedInSystemField ==
    \A t \in Tasks :
        (backend = "direct" /\ direct.provider = "anthropic"
            /\ direct.task[t].pc = "awaiting")
        => LET kwargs == direct.task[t].kwargs[1]
               out == direct.task[t].outgoing
           IN  /\ \A i \in 1..Len(kwargs.messages) : kwargs.messages[i].role # "system"
               /\ \A i \in 1..Len(out) :
                    out[i].role = "system"
                    => /\ kwargs.system # None
                       /\ Contains(kwargs.system[1], out[i].content)

\* What the provider reports with the exception it raises.
RateLimitFailures == {e \in ProviderExceptions : Contains(e.type, "RateLimitError")}
ContentPolicyRefusals ==
    {e \in ProviderExceptions :
        Contains(e.type, "ContentFilter") \/ Contains(Lower(e.text), "content_filter")}

\* C26: for both provider families, a rate-limit failure the provider
\* reports during invoke_llm reaches the caller as a rate-limit error that
\* carries the provider's name, a content-policy refusal as a content-policy
\* error, any other provider error as a provider error; and the provider is
\* not called again.
C26_ProviderErrorsClassifiedForBothFamilies ==
    [][\A t \in Tasks, e \in ProviderExceptions :
         D_provider_raises(t, e)
         => /\ direct'.provider_calls = direct.provider_calls
            /\ direct'.task[t].pc = "idle"
            /\ IF e \in RateLimitFailures
               THEN /\ last'.res = "RateLimitError"
                    /\ last'.val # None
                    /\ last'.val[1].provider = direct.provider
               ELSE IF e \in ContentPolicyRefusals
               THEN last'.res = "ContentPolicyError"
               ELSE last'.res = "ProviderError"]_vars

\* C27: with two invoke_llm calls in flight on one direct client, the call
\* whose provider call completes first puts its messages into the history
\* first, whichever of the two was made first; and the outgoing list of the
\* call made second, built while the first is still in flight, holds the
\* prompt, the history of the calls that have taken effect and its own
\* new_messages: nothing of the first call, whose return does not change it.
C27_CompletionOrderDecidesHistory ==
    [][\A t \in Tasks, u \in Tasks :
         (t # u /\ direct.task[t].pc = "awaiting")
         => /\ (direct.task[u].pc = "awaiting" /\ Resumed(t) /\ last'.res = "ok")
               => /\ direct'.history
                       = (direct.history \o direct.task[t].new_messages)
                         \o <<last'.val.message>>
                  /\ direct'.task[u] = direct.task[u]
            /\ Dispatched(u)
               => /\ Len(direct.history) = Len(Flatten(obs.calls))
                  /\ Len(direct'.task[u].outgoing)
                       = (IF direct.system_prompt = None THEN 0 ELSE 1)
                         + Len(direct.history) + Len(direct'.task[u].new_messages)]_vars

\* Two calls were in flight together; the one made second has returned
\* first, so the history holds its messages before those of the call made
\* first.
C27_Witness ==
    /\ backend = "direct"
    /\ Len(obs.calls) = 2
    /\ obs.calls[1].msgs # None
    /\ obs.calls[2].msgs # None
    /\ obs.calls[1].msgs # obs.calls[2].msgs
    /\ direct.history = obs.calls[2].msgs[1] \o obs.calls[1].msgs[1]

\* The httpx.Response a trace entry stands for.
ResponseOf(e) ==
    Response(e.status_code, e.body # None, IF e.body # None THEN e.body[1] ELSE EmptyObj)

\* C28: the retry and backoff state of the remote client is local to each
\* call. With two requests on one client, a step of one leaves the other's
\* state as it is; each request starts at attempt 1 with no sleeps behind
\* it, numbers its attempts by its own failures and makes at most
\* max_retries of them; and the error it ends in is made of its own
\* attempts alone: network-exhaustion after max_retries failures of its own,
\* a domain error from its own 4xx response.
C28_RetryStateIsPerCall ==
    [][backend = "remote" =>
        \A q \in DOMAIN remote.req :
            LET r == remote'.req[q]
            IN  /\ r # remote.req[q]
                   => \A u \in DOMAIN remote.req \ {q} : remote'.req[u] = remote.req[u]
                /\ (remote.req[q].pc = "idle" /\ r.pc = "http")
                   => r.attempt = 1 /\ r.trace = <<>> /\ r.sleeps = <<>>
                /\ r.pc \in {"http", "sleep"}
                   => /\ r.attempt = Len(r.trace) + (IF r.pc = "http" THEN 1 ELSE 0)
                      /\ r.attempt <= remote.max_retries
                      /\ r.requests = r.attempt
                      /\ FailedAttempts(r) = 1..Len(r.trace)
                      /\ Len(r.sleeps) = Len(r.trace)
                /\ r.result.kind = "NetworkError"
                   => /\ Len(r.trace) = remote.max_retries
                      /\ FailedAttempts(r) = 1..Len(r.trace)
                      /\ r.requests = remote.max_retries
                      /\ r.result.attempts = remote.max_retries
                      /\ r.result.last_status_code
                           = (IF IsServerFailure(r.trace[Len(r.trace)])
                              THEN Some(r.trace[Len(r.trace)].status_code) ELSE None)
                /\ r.result.kind \in DomainErrors
                   => /\ IsClientError(r.trace[Len(r.trace)])
                      /\ r.result = Raise4xx(ResponseOf(r.trace[Len(r.trace)]))
                      /\ r.requests = Len(r.trace)]_vars

\* Two requests in flight on a client with max_retries 3: one has failed
\* twice and sleeps its second backoff, the other is at its first attempt.
C28_Witness ==
    /\ backend = "remote"
    /\ DOMAIN remote.req = {"A", "B"}
    /\ remote.max_retries = 3
    /\ remote.req["A"].pc = "sleep"
    /\ remote.req["A"].sleeps = <<1, 2>>
    /\ remote.req["B"].pc = "http"
    /\ remote.req["B"].attempt = 1
    /\ remote.req["B"].result.kind = "none"

\* C29: every request of the remote client, whatever the transport answers,
\* makes at most max_retries HTTP attempts and ends in exactly one of: a
\* returned body (status below 400), a 4xx domain error, network-exhaustion.
C29_RequestEndsInOneOfThreeOutcomes ==
    \A r \in Requests :
        /\ r.requests <= remote.max_retries
        /\ Len(r.trace) <= remote.max_retries
        /\ (Finished(r) /\ r.requests >= 1)
           => LET final == r.trace[Len(r.trace)]
              IN  \/ /\ r.result.kind = "ok"
                     /\ r.ret # None
                     /\ IsSuccess(final)
                  \/ /\ r.result.kind \in DomainErrors
                     /\ IsClientError(final)
                  \/ /\ r.result.kind = "NetworkError"
                     /\ Len(r.trace) = remote.max_retries

\* C30: the test double records an invoke_llm call before it takes a
\* response: every call, one that fails with queue-empty included, adds one
\* to invoke_llm_call_count (the length of the recorded calls), reset() puts
\* the count back to zero and nothing else changes it; and a call failing
\* with queue-empty leaves the accumulated cost and the queue as they were.
C30_CallRecordedBeforeResponseTaken ==
    [][backend = "mock" =>
        IF Len(obs'.outcomes) = Len(obs.outcomes) + 1
        THEN /\ Len(mock'.invoke_calls) = Len(mock.invoke_calls) + 1
             /\ mock'.invoke_calls[Len(mock'.invoke_calls)].new_messages = last'.arg
             /\ last'.res = "MockGatewayQueueEmptyError"
                => /\ mock'.total_cost = mock.total_cost
                   /\ mock'.queue = mock.queue
                   /\ mock.queue = <<>>
                   /\ mock'.default = None
        ELSE IF last'.op = "reset"
        THEN Len(mock'.invoke_calls) = 0
        ELSE mock'.invoke_calls = mock.invoke_calls]_vars

\* A call has just failed with queue-empty after an earlier call took the
\* one queued response: both are counted, the cost is that of the first.
C30_Witness ==
    /\ backend = "mock"
    /\ last.res = "MockGatewayQueueEmptyError"
    /\ Len(mock.invoke_calls) = 2
    /\ mock.total_cost # 0
    /\ mock.queue = <<>>

\* C31: reset of the test double empties the recorded invoke, persist and
\* file-url calls and puts the accumulated cost to 0; it leaves the queue of
\* responses not yet taken and the default response as they are, so the
\* invoke_llm calls after it return the responses that were queued, in the
\* order they were queued.
C31_ResetClearsRecordsKeepsQueue ==
    [][backend = "mock" =>
        /\ last'.op = "reset"
           => /\ mock'.invoke_calls = <<>>
              /\ mock'.persist_calls = <<>>
              /\ mock'.file_url_calls = <<>>
              /\ mock'.total_cost = 0
              /\ mock'.queue = mock.queue
              /\ mock'.default = mock.default
              /\ mock'.workspace = mock.workspace
        /\ (Len(obs'.outcomes) = Len(obs.outcomes) + 1 /\ mock.queue # <<>>)
           => /\ last'.res = "ok"
              /\ last'.val = Head(mock.queue)
              /\ mock'.queue = Tail(mock.queue)]_vars

\* Two invoke_llm calls with a reset between them: the second returned the
\* response queued behind the first one's, only the second is on record and
\* the accumulated cost is that of the second alone.
C31_Witness ==
    /\ backend = "mock"
    /\ Len(obs.outcomes) = 2
    /\ obs.outcomes[1].response = Some(Refund)
    /\ last.op = "invoke_llm"
    /\ last.val = First
    /\ Len(mock.invoke_calls) = 1
    /\ mock.total_cost = First.cost_usd

\* C32: on a remote client built with max_retries <= 0, every operation
\* that gets as far as issuing a request makes no HTTP attempt and sleeps no
\* backoff, and fails with network-exhaustion whose attempts field is the
\* configured max_retries and whose last status code is absent.
C32_NoAttemptsWithoutRetries ==
    (backend = "remote" /\ remote.max_retries <= 0)
    => \A r \in Requests :
         /\ r.pc = "idle"
         /\ r.requests = 0
         /\ r.trace = <<>>
         /\ r.sleeps = <<>>
         /\ r.ret = None
         /\ (r.op # "none" /\ r.result.kind # "PathNotAllowedError")
            => /\ r.result.kind = "NetworkError"
               /\ r.result.attempts = remote.max_retries
               /\ r.result.last_status_code = None
               /\ last.res = "NetworkError"
               /\ last.val = r.result

\* persist_messages has just failed on a client built with max_retries -1.
C32_Witness ==
    /\ backend = "remote"
    /\ remote.max_retries = -1
    /\ \E r \in Requests :
         /\ r.op = "persist_messages"
         /\ r.result.kind = "NetworkError"
         /\ r.result.attempts = -1
         /\ r.requests = 0

\* C33: a reset() of the direct client that runs while an invoke_llm is
\* suspended on its provider call clears history and cost in one step and
\* leaves the call in flight; when that call then succeeds, its commit lands
\* on the reset state: the accumulated cost is the cost of its response
\* alone and the history is its new_messages followed by its response
\* message.
C33_ResetDuringInFlightCall ==
    [][backend = "direct" =>
        /\ last'.op = "reset"
           => /\ direct'.history = <<>>
              /\ direct'.total_cost = 0
              /\ direct'.task = direct.task
              /\ direct'.provider_calls = direct.provider_calls
        /\ \A t \in Tasks :
             (last.op = "reset" /\ Resumed(t) /\ last'.res = "ok")
             => /\ direct'.total_cost = last'.val.cost_usd
                /\ direct'.history
                     = Append(direct.task[t].new_messages, last'.val.message)]_vars

\* reset() has just run on a client with a call in flight whose outgoing
\* list was built from a history that is now cleared.
C33_Witness ==
    /\ backend = "direct"
    /\ last.op = "reset"
    /\ direct.history = <<>>
    /\ direct.total_cost = 0
    /\ \E t \in Tasks :
         /\ direct.task[t].pc = "awaiting"
         /\ Len(direct.task[t].outgoing) > Len(direct.task[t].new_messages) + 1

\* The calls on the observer's list that have taken effect.
Effected(calls) == SelectSeq(calls, LAMBDA c : c.msgs # None)

\* C34: the commit of a successful invoke_llm of the direct client is one
\* step, so with calls in flight together no cost update is lost (the
\* accumulated cost is the sum of the costs of the calls that succeeded
\* since the last reset) and each call's new_messages and response message
\* lie together in the history: the history is the blocks of the calls that
\* took effect, whole, one after another in some order.
C34_CommitIsOneStep ==
    (backend = "direct" /\ obs.ordered)
    => LET done == Effected(obs.calls)
           n == Len(done)
       IN  /\ direct.total_cost = SumSeq(obs.returned_costs)
           /\ Len(obs.returned_costs)
                = Cardinality({i \in 1..n : done[i].by # "persist_messages"})
           /\ \E p \in Permutations(1..n) :
                direct.history = Flatten([i \in 1..n |-> done[p[i]]])

\* Three calls have taken effect, two of them invoke_llm calls that
\* succeeded, in an order that is not the order they were made in.
C34_Witness ==
    /\ backend = "direct"
    /\ Len(obs.calls) = 3
    /\ Len(Effected(obs.calls)) = 3
    /\ Len(obs.returned_costs) >= 2
    /\ direct.total_cost > 0
    /\ direct.history # Flatten(obs.calls)

====
